---------------------------- MODULE Spec2Model ----------------------------
(***************************************************************************)
(* Model of the Atlas tier automation: monitor_and_scale_down.py (the      *)
(* per-shard decision state machine, the batch mutation builder and the    *)
(* timestamp bookkeeping) and scale_up_all.py (the scale-up mutation).     *)
(*                                                                         *)
(* JSON documents are modelled as Python sees them: a dict is a function   *)
(* whose domain is the set of keys present, a list is a sequence, a str is *)
(* a string.  A dict whose iteration order matters (regionsConfig) is a    *)
(* sequence of [k, v] items in document order.  Optional values (None) are *)
(* the empty sequence <<>>, a present value v is <<v>>.                    *)
(* Disk sizes are floats in the program; here they are integers counting   *)
(* tenths of a GB.  Time is counted in whole hours.                        *)
(***************************************************************************)
EXTENDS Integers, Sequences, FiniteSets, TLC

VARIABLES
    now,              \* wall clock, hours
    config_file,      \* contents of clusterConfig.json (the timestamp store)
    cluster_entries,  \* main(): the entries loaded from the file at start
    tier_specs,       \* main(): the table loaded by load_tier_specs
    min_hours,        \* main(): --min-hours-since-update
    pc,               \* position of the run
    ci,               \* main(): index of the cluster entry being handled
    si,               \* monitor_cluster(): index into shards_config
    shard_updates,    \* monitor_cluster(): the pending changes collected
    last,             \* the last shard evaluation: which shard, how it ended
    patches,          \* the PATCH requests sent in this run, in order
    batch,            \* the last call of update_cluster_shards and its result
    topology          \* the cluster document a payload is built from

vars == <<now, config_file, cluster_entries, tier_specs, min_hours, pc, ci, si,
          shard_updates, last, patches, batch, topology>>

---------------------------------------------------------------------------
(* Python values *)

None == <<>>

Some(v) == <<v>>

\* d.get(k, default)
Get(d, k, default) == IF k \in DOMAIN d THEN d[k] ELSE default

\* d.pop(k, None), for its effect on d
Pop(d, k) == [f \in DOMAIN d \ {k} |-> d[f]]

\* d[k] = v
Put(d, k, v) == [f \in DOMAIN d \cup {k} |-> IF f = k THEN v ELSE d[f]]

\* the empty dict {}
EmptyDict == [f \in {} |-> 0]

\* bool(d) of a dict or a list
Truthy(d) == DOMAIN d # {}

\* bool(s) of a str
StrTruthy(s) == s # ""

\* s[1:]
StrTail(s) == IF Len(s) = 0 THEN s ELSE SubSeq(s, 2, Len(s))

\* sub in s
Contains(s, sub) ==
    \E i \in 0..(Len(s) - Len(sub)) : SubSeq(s, i + 1, i + Len(sub)) = sub

---------------------------------------------------------------------------
(* Numbers.  A float is a fraction [n, d] with d > 0; the comparisons are   *)
(* exact.                                                                   *)

RECURSIVE Gcd(_, _)
Gcd(a, b) == IF b = 0 THEN a ELSE Gcd(b, a % b)

Abs(x) == IF x < 0 THEN -x ELSE x

\* the fraction n/d in lowest terms
Rat(n, d) ==
    LET g == Gcd(Abs(n), d) IN [n |-> n \div g, d |-> d \div g]

\* a variant of >= that leaves equality out
RatAbove(a, b) == a.n * b.d > b.n * a.d

RatGE(a, b) == a.n * b.d >= b.n * a.d

RatGT(a, b) == a.n * b.d > b.n * a.d

RatMul(a, b) == Rat(a.n * b.n, a.d * b.d)

RatDiv(a, k) == Rat(a.n, a.d * k)

RatAdd(a, b) == Rat(a.n * b.d + b.n * a.d, a.d * b.d)

RatSub(a, b) == Rat(a.n * b.d - b.n * a.d, a.d * b.d)

Zero == [n |-> 0, d |-> 1]

\* int(x) of a float counted in tenths: truncation toward zero
IntOfTenths(x) == IF x >= 0 THEN (x \div 10) * 10 ELSE -(((-x) \div 10) * 10)

DigitChars == "0123456789"

IsDigit(c) == \E i \in 1..10 : SubSeq(DigitChars, i, i) = c

DigitVal(c) == (CHOOSE i \in 1..10 : SubSeq(DigitChars, i, i) = c) - 1

RECURSIVE StripWs(_)
\* s.strip(), which int() applies to its argument
StripWs(s) ==
    IF Len(s) > 0 /\ SubSeq(s, 1, 1) = " " THEN StripWs(SubSeq(s, 2, Len(s)))
    ELSE IF Len(s) > 0 /\ SubSeq(s, Len(s), Len(s)) = " "
         THEN StripWs(SubSeq(s, 1, Len(s) - 1))
         ELSE s

\* the digits of an int() literal: digits, single underscores between them
IsIntBody(s) ==
    /\ Len(s) > 0
    /\ IsDigit(SubSeq(s, 1, 1))
    /\ IsDigit(SubSeq(s, Len(s), Len(s)))
    /\ \A i \in 1..Len(s) :
          \/ IsDigit(SubSeq(s, i, i))
          \/ SubSeq(s, i, i) = "_" /\ i < Len(s) /\ SubSeq(s, i + 1, i + 1) # "_"

RECURSIVE IntBodyVal(_, _)
IntBodyVal(s, acc) ==
    IF Len(s) = 0 THEN acc
    ELSE IF SubSeq(s, 1, 1) = "_" THEN IntBodyVal(SubSeq(s, 2, Len(s)), acc)
         ELSE IntBodyVal(SubSeq(s, 2, Len(s)), 10 * acc + DigitVal(SubSeq(s, 1, 1)))

\* int(s) of a str: Some(value), or None where Python raises ValueError
PyInt(s) ==
    LET t == StripWs(s)
        neg == Len(t) > 0 /\ SubSeq(t, 1, 1) = "-"
        signed == Len(t) > 0 /\ SubSeq(t, 1, 1) \in {"-", "+"}
        body == IF signed THEN SubSeq(t, 2, Len(t)) ELSE t
    IN  IF IsIntBody(body)
        THEN Some(IF neg THEN -IntBodyVal(body, 0) ELSE IntBodyVal(body, 0))
        ELSE None

---------------------------------------------------------------------------
(* ScaleDownMonitor: tier arithmetic and the shard's region config *)

\* _tier_to_number; the tier is a str in every document of the model
_tier_to_number(tier_str) ==
    IF ~StrTruthy(tier_str) THEN 0
    ELSE LET parsed == IF SubSeq(tier_str, 1, 1) \in {"M", "R", "m", "r"}
                       THEN PyInt(StrTail(tier_str))
                       ELSE PyInt(tier_str)
         IN  IF parsed = None THEN 0 ELSE parsed[1]

\* list(d.values()) of an ordered dict
DictValues(items) == [i \in 1..Len(items) |-> items[i].v]

\* _get_region_config: Some(region config) or None
_get_region_config(info, shard_index) ==
    LET replication_specs == Get(info, "replicationSpecs", <<>>)
    IN  IF shard_index < 0 \/ shard_index >= Len(replication_specs) THEN None
        ELSE LET spec == replication_specs[shard_index + 1]
                 flat == Get(spec, "regionConfigs", <<>>)
                 region_configs ==
                     IF ~Truthy(flat) /\ Truthy(Get(spec, "regionsConfig", <<>>))
                     THEN <<DictValues(spec["regionsConfig"])[1]>>
                     ELSE flat
             IN  IF Truthy(region_configs) THEN Some(region_configs[1]) ELSE None

\* check_shard_tier, from the region config found: the str, or "" where the
\* code has None
TierOfRegion(region_config) ==
    IF region_config # None /\ Truthy(region_config[1])
    THEN Get(Get(region_config[1], "effectiveElectableSpecs", EmptyDict),
             "instanceSize", "")
    ELSE ""

\* a variant that looks at the first shard whatever the index
TierOfFirstShard(info, shard_index) == TierOfRegion(_get_region_config(info, 0))

check_shard_tier(info, shard_index) ==
    TierOfRegion(_get_region_config(info, shard_index))

\* check_autoscale_limits, from the region config found: the list of reasons;
\* the check passes iff it is empty
AutoscaleReasons(region_config, base_tier, scale_up_tier) ==
    IF region_config = None \/ ~Truthy(region_config[1])
    THEN <<"no region config">>
    ELSE LET compute_cfg ==
                 Get(Get(region_config[1], "autoScaling", EmptyDict),
                     "compute", EmptyDict)
         IN  IF ~Truthy(compute_cfg) THEN <<"no autoscale compute config">>
             ELSE LET min_instance_size == Get(compute_cfg, "minInstanceSize", "")
                      max_instance_size == Get(compute_cfg, "maxInstanceSize", "")
                      base_num == _tier_to_number(base_tier)
                      scale_up_num == _tier_to_number(scale_up_tier)
                      min_num == _tier_to_number(min_instance_size)
                      max_num == _tier_to_number(max_instance_size)
                  IN  IF ~StrTruthy(min_instance_size) \/ ~StrTruthy(max_instance_size)
                      THEN <<"min/max not configured">>
                      ELSE (IF base_num < min_num \/ base_num > max_num
                            THEN <<"baseTier outside limits">> ELSE <<>>)
                           \o
                           (IF scale_up_num < min_num \/ scale_up_num > max_num
                            THEN <<"scaleUpTier outside limits">> ELSE <<>>)

check_autoscale_limits(info, shard_index, base_tier, scale_up_tier) ==
    AutoscaleReasons(_get_region_config(info, shard_index), base_tier, scale_up_tier)

---------------------------------------------------------------------------
(* The staleness / window gate.  A stored lastTierUpdate is a str; the      *)
(* model keeps the form it was written in and the instant it denotes:       *)
(*   [form |-> "empty"]                 the key is absent or ""             *)
(*   [form |-> "garbage"]               no ISO timestamp                    *)
(*   [form |-> "offset" | "Z" | "naive", t |-> hours]   an ISO timestamp    *)
(*                                       with +00:00, with Z, without zone  *)

NEW_SCALE_UP_THRESHOLD_HOURS == 24

NoTimestamp == [form |-> "empty"]

\* datetime.now(timezone.utc).isoformat()
IsoFormat(t) == [form |-> "offset", t |-> t]

\* _parse_timestamp: Some(instant) or None
_parse_timestamp(timestamp_str) ==
    IF timestamp_str.form = "empty" THEN None
    ELSE IF timestamp_str.form = "garbage" THEN None
         ELSE Some(timestamp_str.t)

\* a variant that compares the minutes passed with the hours required
MinutesAgainstHours(last_tier_update, min, clock) ==
    IF last_tier_update.form = "empty" THEN [ok |-> TRUE, time_diff |-> None]
    ELSE LET last_update == _parse_timestamp(last_tier_update)
         IN  IF last_update = None THEN [ok |-> TRUE, time_diff |-> None]
             ELSE LET hours_passed == clock - last_update[1]
                  IN  [ok |-> hours_passed * 60 >= min,
                       time_diff |-> Some(hours_passed)]

\* check_time_since_update: [ok, time_diff], time_diff an Optional
check_time_since_update(last_tier_update, min, clock) ==
    IF last_tier_update.form = "empty" THEN [ok |-> TRUE, time_diff |-> None]
    ELSE LET last_update == _parse_timestamp(last_tier_update)
         IN  IF last_update = None THEN [ok |-> TRUE, time_diff |-> None]
             ELSE LET hours_passed == clock - last_update[1]
                  IN  [ok |-> hours_passed >= min, time_diff |-> Some(hours_passed)]

\* a variant that takes a timestamp for old only once it is past the threshold
OldPastThreshold(last_tier_update, clock) ==
    IF last_tier_update.form = "empty" THEN [ok |-> TRUE, time_diff |-> None]
    ELSE LET last_update == _parse_timestamp(last_tier_update)
         IN  IF last_update = None THEN [ok |-> TRUE, time_diff |-> None]
             ELSE LET hours_passed == clock - last_update[1]
                  IN  [ok |-> hours_passed > NEW_SCALE_UP_THRESHOLD_HOURS,
                       time_diff |-> Some(hours_passed)]

\* a variant that takes a timestamp for old after twice the threshold
OldAfterTwoDays(last_tier_update, clock) ==
    IF last_tier_update.form = "empty" THEN [ok |-> TRUE, time_diff |-> None]
    ELSE LET last_update == _parse_timestamp(last_tier_update)
         IN  IF last_update = None THEN [ok |-> TRUE, time_diff |-> None]
             ELSE LET hours_passed == clock - last_update[1]
                  IN  [ok |-> hours_passed >= 2 * NEW_SCALE_UP_THRESHOLD_HOURS,
                       time_diff |-> Some(hours_passed)]

\* is_timestamp_very_old, with its default threshold
is_timestamp_very_old(last_tier_update, clock) ==
    IF last_tier_update.form = "empty" THEN [ok |-> TRUE, time_diff |-> None]
    ELSE LET last_update == _parse_timestamp(last_tier_update)
         IN  IF last_update = None THEN [ok |-> TRUE, time_diff |-> None]
             ELSE LET hours_passed == clock - last_update[1]
                  IN  [ok |-> hours_passed >= NEW_SCALE_UP_THRESHOLD_HOURS,
                       time_diff |-> Some(hours_passed)]

---------------------------------------------------------------------------
(* The metrics aggregator and the safety evaluator.  A CPU, IOPS or         *)
(* connection sample is an integer; a MEMORY_RESIDENT sample counts units   *)
(* of 2^27 bytes, so that v / 1024**3 is the fraction v/8 GB.               *)

CPU_THRESHOLD == 35

MEMORY_THRESHOLD_PERCENT == [n |-> 3, d |-> 5]

IOPS_THRESHOLD_PERCENT == [n |-> 3, d |-> 5]

CONNECTIONS_THRESHOLD_PERCENT == [n |-> 1, d |-> 2]

RECURSIVE SeqSum(_)
\* sum(values)
SeqSum(values) ==
    IF Len(values) = 0 THEN Zero ELSE RatAdd(Head(values), SeqSum(Tail(values)))

RECURSIVE SeqMax(_)
\* max(values), of a non-empty list
SeqMax(values) ==
    IF Len(values) = 1 THEN values[1]
    ELSE LET m == SeqMax(Tail(values))
         IN  IF RatGT(m, values[1]) THEN m ELSE values[1]

\* the measurements m with m.get("value") is not None
SelectValues(entries) ==
    SelectSeq(entries, LAMBDA m : "value" \in DOMAIN m)

\* v / (1024**3), of a sample counted in units of 2^27 bytes
BytesToGB(v) == Rat(v.n, v.d * 8)

\* transform(v): transform is None or Some(name of the lambda)
Transform(transform, v) == IF transform = None THEN v ELSE BytesToGB(v)

\* _extract_metric_values; measurement_data is None or Some(dict)
_extract_metric_values(measurement_data, transform) ==
    IF measurement_data = None \/ ~Truthy(measurement_data[1])
       \/ "measurements" \notin DOMAIN measurement_data[1]
    THEN <<>>
    ELSE LET kept == SelectValues(measurement_data[1]["measurements"])
         IN  [i \in 1..Len(kept) |-> Transform(transform, Rat(kept[i]["value"], 1))]

\* a variant that takes a metric without samples to be at its worst
SaturatedDefaults ==
    [cpu_max |-> Rat(100, 1), cpu_avg |-> Rat(100, 1), cpu_std |-> [root_of |-> Zero],
     memory_max_gb |-> Zero, memory_avg_gb |-> Zero,
     iops_max |-> Zero, iops_avg |-> Zero,
     connections_max |-> Zero, connections_avg |-> Zero]

\* _default_metrics; cpu_std is kept as the variance it is the root of
_default_metrics ==
    [cpu_max |-> Zero, cpu_avg |-> Zero, cpu_std |-> [root_of |-> Zero],
     memory_max_gb |-> Zero, memory_avg_gb |-> Zero,
     iops_max |-> Zero, iops_avg |-> Zero,
     connections_max |-> Zero, connections_avg |-> Zero]

Mean(values) == RatDiv(SeqSum(values), Len(values))

Variance(values) ==
    LET avg == Mean(values)
        sq == [i \in 1..Len(values) |->
                  RatMul(RatSub(values[i], avg), RatSub(values[i], avg))]
    IN  RatDiv(SeqSum(sq), Len(values))

\* get_cluster_metrics; measurements maps each metric name to the answer of
\* get_measurements for it
get_cluster_metrics(primary_process, measurements) ==
    IF "id" \notin DOMAIN primary_process \/ ~StrTruthy(primary_process["id"])
    THEN _default_metrics
    ELSE LET cpu_values ==
                 _extract_metric_values(measurements["CPU_USER"], None)
             memory_values ==
                 _extract_metric_values(measurements["MEMORY_RESIDENT"], Some("v / (1024**3)"))
             iops_values ==
                 _extract_metric_values(measurements["DISK_PARTITION_IOPS_TOTAL"], None)
             conn_values ==
                 _extract_metric_values(measurements["CONNECTIONS"], None)
             d == _default_metrics
         IN  [cpu_max |-> IF Truthy(cpu_values) THEN SeqMax(cpu_values) ELSE d.cpu_max,
              cpu_avg |-> IF Truthy(cpu_values) THEN Mean(cpu_values) ELSE d.cpu_avg,
              cpu_std |-> IF Len(cpu_values) > 1
                          THEN [root_of |-> Variance(cpu_values)] ELSE d.cpu_std,
              memory_max_gb |-> IF Truthy(memory_values) THEN SeqMax(memory_values)
                                ELSE d.memory_max_gb,
              memory_avg_gb |-> IF Truthy(memory_values) THEN Mean(memory_values)
                                ELSE d.memory_avg_gb,
              iops_max |-> IF Truthy(iops_values) THEN SeqMax(iops_values)
                           ELSE d.iops_max,
              iops_avg |-> IF Truthy(iops_values) THEN Mean(iops_values)
                           ELSE d.iops_avg,
              connections_max |-> IF Truthy(conn_values) THEN SeqMax(conn_values)
                                  ELSE d.connections_max,
              connections_avg |-> IF Truthy(conn_values) THEN Mean(conn_values)
                                  ELSE d.connections_avg]

\* a variant that returns at the first rule that fails
ReturnsAtFirstFailure(base_tier, current_tier, metrics, specs) ==
    IF base_tier \notin DOMAIN specs \/ current_tier \notin DOMAIN specs
    THEN <<"missing tier specs">>
    ELSE LET current_spec == specs[current_tier]
             base_spec == specs[base_tier]
         IN  IF RatGE(metrics.cpu_avg, Rat(CPU_THRESHOLD, 1)) THEN <<"cpu">>
             ELSE IF ~RatGT(current_spec.ram, Zero) THEN <<"no memory threshold">>
             ELSE IF RatGE(metrics.memory_avg_gb,
                           RatMul(current_spec.ram, MEMORY_THRESHOLD_PERCENT))
                  THEN <<"memory">>
             ELSE IF RatGE(metrics.iops_avg,
                           RatMul(Rat(current_spec.iops, 1), IOPS_THRESHOLD_PERCENT))
                  THEN <<"iops">>
             ELSE IF RatGE(metrics.connections_avg,
                           RatMul(Rat(base_spec.connection, 1),
                                  CONNECTIONS_THRESHOLD_PERCENT))
                  THEN <<"connections">>
             ELSE <<>>

\* check_safety_conditions: the list of reasons; safe iff it is empty
check_safety_conditions(base_tier, current_tier, metrics, specs) ==
    IF base_tier \notin DOMAIN specs \/ current_tier \notin DOMAIN specs
    THEN <<"missing tier specs">>
    ELSE LET current_spec == specs[current_tier]
             base_spec == specs[base_tier]
             current_ram == current_spec.ram
             memory_threshold == RatMul(current_ram, MEMORY_THRESHOLD_PERCENT)
             iops_threshold ==
                 RatMul(Rat(current_spec.iops, 1), IOPS_THRESHOLD_PERCENT)
             connections_threshold ==
                 RatMul(Rat(base_spec.connection, 1), CONNECTIONS_THRESHOLD_PERCENT)
         IN  (IF RatGE(metrics.cpu_avg, Rat(CPU_THRESHOLD, 1))
              THEN <<"cpu">> ELSE <<>>)
             \o
             (IF RatGT(current_ram, Zero)
              THEN (IF RatGE(metrics.memory_avg_gb, memory_threshold)
                    THEN <<"memory">> ELSE <<>>)
              ELSE <<"no memory threshold">>)
             \o
             (IF RatGE(metrics.iops_avg, iops_threshold)
              THEN <<"iops">> ELSE <<>>)
             \o
             (IF RatGE(metrics.connections_avg, connections_threshold)
              THEN <<"connections">> ELSE <<>>)

---------------------------------------------------------------------------
(* The shard locator *)

\* str.lower() of one character
LowerChar(c) ==
    CASE c = "A" -> "a" [] c = "B" -> "b" [] c = "C" -> "c" [] c = "D" -> "d"
      [] c = "E" -> "e" [] c = "F" -> "f" [] c = "G" -> "g" [] c = "H" -> "h"
      [] c = "I" -> "i" [] c = "J" -> "j" [] c = "K" -> "k" [] c = "L" -> "l"
      [] c = "M" -> "m" [] c = "N" -> "n" [] c = "O" -> "o" [] c = "P" -> "p"
      [] c = "Q" -> "q" [] c = "R" -> "r" [] c = "S" -> "s" [] c = "T" -> "t"
      [] c = "U" -> "u" [] c = "V" -> "v" [] c = "W" -> "w" [] c = "X" -> "x"
      [] c = "Y" -> "y" [] c = "Z" -> "z" [] OTHER -> c

RECURSIVE Lower(_)
\* s.lower()
Lower(s) ==
    IF Len(s) = 0 THEN s
    ELSE LowerChar(SubSeq(s, 1, 1)) \o Lower(SubSeq(s, 2, Len(s)))

RECURSIVE Remove(_, _)
\* s.replace(sub, ""), sub not empty
Remove(s, sub) ==
    IF Len(s) < Len(sub) THEN s
    ELSE IF SubSeq(s, 1, Len(sub)) = sub
         THEN Remove(SubSeq(s, Len(sub) + 1, Len(s)), sub)
         ELSE SubSeq(s, 1, 1) \o Remove(SubSeq(s, 2, Len(s)), sub)

RECURSIVE IntToStr(_)
\* str(n), n >= 0
IntToStr(n) ==
    IF n < 10 THEN SubSeq(DigitChars, n + 1, n + 1)
    ELSE IntToStr(n \div 10) \o SubSeq(DigitChars, (n % 10) + 1, (n % 10) + 1)

\* str(n) of any int
PyStr(n) == IF n < 0 THEN "-" \o IntToStr(-n) ELSE IntToStr(n)

\* the test of one process in get_cluster_process_for_shard
ProcessMatches(p, cluster_id, shard_index) ==
    LET hostname == Get(p, "hostname", "")
        replica_set == Lower(Get(p, "replicaSetName", ""))
    IN  /\ Contains(Lower(hostname), cluster_id)
        /\ IF shard_index = 0
           THEN \/ Contains(replica_set, "config-0")
                \/ Contains(replica_set, "config")
                \/ Contains(replica_set, "shard-0")
           ELSE Contains(replica_set, "shard-" \o PyStr(shard_index - 1))

\* a variant of the loop that returns the first match whatever its role
FirstMatchWins(processes, cluster_id, shard_index, candidates) ==
    LET matched == {i \in 1..Len(processes) :
                       ProcessMatches(processes[i], cluster_id, shard_index)}
    IN  IF matched = {} THEN None
        ELSE Some(processes[CHOOSE i \in matched : \A j \in matched : i <= j])

RECURSIVE ScanProcesses(_, _, _, _)
\* get_cluster_process_for_shard lines 192-212: the loop over the processes
\* left to look at, with the candidates collected so far, and the return
ScanProcesses(processes, cluster_id, shard_index, candidates) ==
    IF Len(processes) = 0
    THEN IF Truthy(candidates) THEN Some(candidates[1]) ELSE None
    ELSE LET p == Head(processes)
         IN  IF ~ProcessMatches(p, cluster_id, shard_index)
             THEN ScanProcesses(Tail(processes), cluster_id, shard_index, candidates)
             ELSE IF Get(p, "typeName", "") \in {"REPLICA_PRIMARY", "SHARD_CONFIG_PRIMARY"}
                  THEN Some(p)
                  ELSE ScanProcesses(Tail(processes), cluster_id, shard_index,
                                     Append(candidates, p))

\* get_cluster_process_for_shard: Some(process) or None; processes is the
\* answer of get_processes ([] when the call failed)
get_cluster_process_for_shard(cluster_name, info, shard_index, processes) ==
    LET replication_specs == Get(info, "replicationSpecs", <<>>)
        cluster_id == Remove(Lower(cluster_name), "cluster")
    IN  IF ~Truthy(replication_specs) \/ shard_index < 0
           \/ shard_index >= Len(replication_specs)
        THEN None
        ELSE IF ~Truthy(processes) THEN None
             ELSE ScanProcesses(processes, cluster_id, shard_index, <<>>)

---------------------------------------------------------------------------
(* The batch mutation builder of the monitor: update_cluster_shards up to   *)
(* the PATCH request                                                        *)

DEFAULT_NODE_COUNT == 3

\* the default disk size 80.0, in tenths of a GB
DefaultDiskSize == 800

read_only_fields ==
    {"id", "mongoURI", "connectionStrings", "stateName", "createDate", "updateDate",
     "links", "groupId", "replicationSpec", "mongoURIUpdated", "mongoURIWithOptions",
     "srvAddress", "mongoDBVersion", "numShards", "name", "mongoDBMajorVersion",
     "providerBackupEnabled", "pitEnabled", "backupEnabled", "clusterType",
     "replicationFactor", "rootCertType", "terminationProtectionEnabled",
     "versionReleaseSystem", "diskWarmingMode", "encryptionAtRestProvider",
     "globalClusterSelfManagedSharding", "labels", "biConnector",
     "customOpensslCipherConfigTls13", "minimumEnabledTlsProtocol",
     "tlsCipherConfigMode"}

\* for field in fields: d.pop(field, None)
PopAll(d, fields) == [f \in DOMAIN d \ fields |-> d[f]]

\* a variant that copies the three specs of a region and nothing else
RegionWithoutAutoScaling(item, provider_name) ==
    LET region_data == item.v
        copied == {"electableSpecs", "analyticsSpecs", "readOnlySpecs"}
                      \cap DOMAIN region_data
    IN  [f \in {"priority", "regionName", "providerName"} \cup copied |->
            CASE f = "priority" -> Get(region_data, "priority", 7)
              [] f = "regionName" -> item.k
              [] f = "providerName" -> provider_name
              [] OTHER -> region_data[f]]

\* the region config built from one item of a regionsConfig mapping
RegionFromMapping(item, provider_name) ==
    LET region_data == item.v
        copied == {"electableSpecs", "analyticsSpecs", "readOnlySpecs", "autoScaling"}
                      \cap DOMAIN region_data
    IN  [f \in {"priority", "regionName", "providerName"} \cup copied |->
            CASE f = "priority" -> Get(region_data, "priority", 7)
              [] f = "regionName" -> item.k
              [] f = "providerName" -> provider_name
              [] OTHER -> region_data[f]]

\* the body of "for spec in replication_specs"
NormalizeSpec(spec, provider_name) ==
    LET stripped == PopAll(spec, {"id", "numShards", "zoneName"})
    IN  IF "regionsConfig" \in DOMAIN stripped /\ "regionConfigs" \notin DOMAIN stripped
        THEN LET regions_config_obj == stripped["regionsConfig"]
             IN  Put(Pop(stripped, "regionsConfig"), "regionConfigs",
                     [i \in 1..Len(regions_config_obj) |->
                         RegionFromMapping(regions_config_obj[i], provider_name)])
        ELSE stripped

\* a variant that keeps only the replication specs that have region configs
NormalizeDroppingEmpty(info) ==
    LET provider_name ==
            Get(Get(info, "providerSettings", EmptyDict), "providerName", "AWS")
        kept == PopAll(info, read_only_fields
                             \cup {"autoScaling", "providerSettings", "diskSizeGB"})
        normalised == [i \in 1..Len(Get(kept, "replicationSpecs", <<>>)) |->
                          NormalizeSpec(kept["replicationSpecs"][i], provider_name)]
    IN  IF "replicationSpecs" \in DOMAIN kept
        THEN Put(kept, "replicationSpecs",
                 SelectSeq(normalised,
                           LAMBDA spec : Truthy(Get(spec, "regionConfigs", <<>>))))
        ELSE kept

\* the payload before the shard updates: the copy without the read-only and the
\* old-format fields, every replication spec normalised
NormalizePayload(info) ==
    LET provider_name ==
            Get(Get(info, "providerSettings", EmptyDict), "providerName", "AWS")
        kept == PopAll(info, read_only_fields
                             \cup {"autoScaling", "providerSettings", "diskSizeGB"})
    IN  IF "replicationSpecs" \in DOMAIN kept
        THEN Put(kept, "replicationSpecs",
                 [i \in 1..Len(kept["replicationSpecs"]) |->
                     NormalizeSpec(kept["replicationSpecs"][i], provider_name)])
        ELSE kept

\* a variant that adds the nodes to the count it finds
ApplyTierChangeAdding(region_config, target_tier, current_disk_size) ==
    LET e0 == region_config["electableSpecs"]
        e1 == Put(e0, "instanceSize", target_tier)
        e2 == Put(e1, "nodeCount", Get(e0, "nodeCount", 0) + DEFAULT_NODE_COUNT)
        e3 == Put(e2, "diskSizeGB", IntOfTenths(current_disk_size))
        e4 == Pop(e3, "diskIOPS")
        e5 == Put(e4, "ebsVolumeType", "STANDARD")
    IN  Put(region_config, "electableSpecs", e5)

\* a variant that leaves the IOPS override where it is
ApplyTierChangeKeepingIops(region_config, target_tier, current_disk_size) ==
    LET e0 == region_config["electableSpecs"]
        e1 == Put(e0, "instanceSize", target_tier)
        e2 == Put(e1, "nodeCount", DEFAULT_NODE_COUNT)
        e3 == Put(e2, "diskSizeGB", IntOfTenths(current_disk_size))
        e5 == Put(e3, "ebsVolumeType", "STANDARD")
    IN  Put(region_config, "electableSpecs", e5)

\* the tier change of the monitor on a region config that has electableSpecs
ApplyTierChange(region_config, target_tier, current_disk_size) ==
    LET e0 == region_config["electableSpecs"]
        e1 == Put(e0, "instanceSize", target_tier)
        e2 == Put(e1, "nodeCount", DEFAULT_NODE_COUNT)
        e3 == Put(e2, "diskSizeGB", IntOfTenths(current_disk_size))
        e4 == Pop(e3, "diskIOPS")
        e5 == Put(e4, "ebsVolumeType", "STANDARD")
    IN  Put(region_config, "electableSpecs", e5)

\* a variant that writes the region config over every region of the shard
SetEveryRegionConfig(payload, shard_index, region_config) ==
    LET specs == payload["replicationSpecs"]
        spec == specs[shard_index + 1]
        written ==
            IF Truthy(Get(spec, "regionConfigs", <<>>))
            THEN Put(spec, "regionConfigs",
                     [i \in 1..Len(spec["regionConfigs"]) |-> region_config])
            ELSE Put(spec, "regionsConfig",
                     [i \in 1..Len(spec["regionsConfig"]) |->
                         [k |-> spec["regionsConfig"][i].k, v |-> region_config]])
    IN  Put(payload, "replicationSpecs", [specs EXCEPT ![shard_index + 1] = written])

\* the write through the reference _get_region_config returned: the first
\* regionConfigs entry, or the first value of regionsConfig
SetRegionConfig(payload, shard_index, region_config) ==
    LET specs == payload["replicationSpecs"]
        spec == specs[shard_index + 1]
        written ==
            IF Truthy(Get(spec, "regionConfigs", <<>>))
            THEN Put(spec, "regionConfigs",
                     [spec["regionConfigs"] EXCEPT ![1] = region_config])
            ELSE Put(spec, "regionsConfig",
                     [spec["regionsConfig"] EXCEPT ![1].v = region_config])
    IN  Put(payload, "replicationSpecs", [specs EXCEPT ![shard_index + 1] = written])

\* whether "for update in shard_updates" changes the payload for this update
UpdateApplies(payload, shard_index) ==
    LET region_config == _get_region_config(payload, shard_index)
    IN  /\ shard_index >= 0
        /\ shard_index < Len(Get(payload, "replicationSpecs", <<>>))
        /\ region_config # None
        /\ Truthy(region_config[1])
        /\ "electableSpecs" \in DOMAIN region_config[1]

RECURSIVE ApplyUpdates(_, _, _)
\* "for update in shard_updates"
ApplyUpdates(payload, updates, target_tier) ==
    IF Len(updates) = 0 THEN payload
    ELSE LET update == Head(updates)
             shard_index == update.shard_index
             next ==
                 IF UpdateApplies(payload, shard_index)
                 THEN SetRegionConfig(payload, shard_index,
                          ApplyTierChange(_get_region_config(payload, shard_index)[1],
                                          target_tier, update.current_disk_size))
                 ELSE payload
         IN  ApplyUpdates(next, Tail(updates), target_tier)

\* update_cluster_shards from the copy to the last count check: the payload, and
\* whether the two replicationSpecs count checks let it be sent
BuildRevertPayload(info, updates, target_tier) ==
    LET original_replication_specs == Get(info, "replicationSpecs", <<>>)
        stripped == PopAll(info, read_only_fields)
        first_ok == Len(Get(stripped, "replicationSpecs", <<>>))
                        = Len(original_replication_specs)
        update_payload == ApplyUpdates(NormalizePayload(info), updates, target_tier)
        final_ok == Len(Get(update_payload, "replicationSpecs", <<>>))
                        = Len(original_replication_specs)
    IN  [ok |-> first_ok /\ final_ok, payload |-> Some(update_payload)]

---------------------------------------------------------------------------
(* scale_up_all.py: scale_up_cluster up to the PATCH request *)

\* get_shard_tier: the str, or "" where the code has None
get_shard_tier(cluster_info, shard_index) ==
    LET replication_specs == Get(cluster_info, "replicationSpecs", <<>>)
    IN  IF shard_index < 0 \/ shard_index >= Len(replication_specs) THEN ""
        ELSE LET spec == replication_specs[shard_index + 1]
                 flat == Get(spec, "regionConfigs", <<>>)
                 region_configs ==
                     IF ~Truthy(flat) /\ Truthy(Get(spec, "regionsConfig", <<>>))
                     THEN <<DictValues(spec["regionsConfig"])[1]>>
                     ELSE flat
             IN  IF Truthy(region_configs)
                 THEN Get(Get(region_configs[1], "effectiveElectableSpecs", EmptyDict),
                          "instanceSize", "")
                 ELSE ""

RECURSIVE ShardsWithTier(_, _, _)
\* a variant that takes every shard whose tier can be read
ShardsWithTier(cluster_info, shard_indices, base_tier) ==
    IF Len(shard_indices) = 0 THEN <<>>
    ELSE LET current_tier == get_shard_tier(cluster_info, Head(shard_indices))
             rest == ShardsWithTier(cluster_info, Tail(shard_indices), base_tier)
         IN  IF StrTruthy(current_tier) THEN <<Head(shard_indices)>> \o rest
             ELSE rest

RECURSIVE ShardsToScale(_, _, _)
\* "for shard_index in shard_indices": the shards found at baseTier, in order
ShardsToScale(cluster_info, shard_indices, base_tier) ==
    IF Len(shard_indices) = 0 THEN <<>>
    ELSE LET current_tier == get_shard_tier(cluster_info, Head(shard_indices))
             rest == ShardsToScale(cluster_info, Tail(shard_indices), base_tier)
         IN  IF StrTruthy(current_tier) /\ current_tier = base_tier
             THEN <<Head(shard_indices)>> \o rest
             ELSE rest

\* the payload of scale_up_cluster before the shard updates; the three
\* old-format fields, popped after the updates, are popped here
ScaleUpNormalize(cluster_info) == NormalizePayload(cluster_info)

\* the tier change of scale_up_cluster on a region config that has
\* electableSpecs: the disk size is read from electableSpecs itself
ScaleUpTierChange(region_config, scale_up_tier) ==
    ApplyTierChange(region_config, scale_up_tier,
                    Get(region_config["electableSpecs"], "diskSizeGB", DefaultDiskSize))

\* whether "for shard_index in shards_to_scale" changes the payload for the index
ScaleUpApplies(payload, shard_index) ==
    LET specs == Get(payload, "replicationSpecs", <<>>)
    IN  /\ shard_index >= 0
        /\ shard_index < Len(specs)
        /\ Truthy(Get(specs[shard_index + 1], "regionConfigs", <<>>))
        /\ "electableSpecs" \in DOMAIN specs[shard_index + 1]["regionConfigs"][1]

RECURSIVE ScaleUpApply(_, _, _)
\* "for shard_index in shards_to_scale": the payload and updated_count
ScaleUpApply(payload, shards_to_scale, scale_up_tier) ==
    IF Len(shards_to_scale) = 0 THEN [payload |-> payload, updated_count |-> 0]
    ELSE LET shard_index == Head(shards_to_scale)
             applies == ScaleUpApplies(payload, shard_index)
             next ==
                 IF applies
                 THEN SetRegionConfig(payload, shard_index,
                          ScaleUpTierChange(
                              payload["replicationSpecs"][shard_index + 1]
                                  ["regionConfigs"][1],
                              scale_up_tier))
                 ELSE payload
             rest == ScaleUpApply(next, Tail(shards_to_scale), scale_up_tier)
         IN  [payload |-> rest.payload,
              updated_count |-> rest.updated_count + (IF applies THEN 1 ELSE 0)]

\* scale_up_cluster from the document read to the last count check: the payload
\* (None where the function returns before it is complete) and whether the
\* PATCH request is reached
BuildScaleUpPayload(cluster_info, shard_indices, base_tier, scale_up_tier) ==
    LET replication_specs == Get(cluster_info, "replicationSpecs", <<>>)
        shards_to_scale == ShardsToScale(cluster_info, shard_indices, base_tier)
        stripped == PopAll(cluster_info, read_only_fields)
        original_count == Len(Get(stripped, "replicationSpecs", <<>>))
        applied == ScaleUpApply(ScaleUpNormalize(cluster_info), shards_to_scale,
                                scale_up_tier)
        Stop(why) == [ok |-> FALSE, why |-> why, payload |-> None,
                      shards_to_scale |-> shards_to_scale]
    IN  IF ~Truthy(cluster_info) THEN Stop("no cluster details")
        ELSE IF ~Truthy(replication_specs) THEN Stop("no replicationSpecs")
        ELSE IF ~Truthy(shards_to_scale) THEN Stop("nothing to scale")
        ELSE IF original_count # Len(replication_specs) THEN Stop("count mismatch")
        ELSE IF applied.updated_count = 0 THEN Stop("no shards updated")
        ELSE IF Len(Get(applied.payload, "replicationSpecs", <<>>)) # original_count
        THEN Stop("final count mismatch")
        ELSE [ok |-> TRUE, why |-> "patch", payload |-> Some(applied.payload),
              shards_to_scale |-> shards_to_scale]

---------------------------------------------------------------------------
(* The timestamp store: update_config_timestamp on the parsed file *)

\* the loop over entry.get('shards'): the first shard with the index is stamped
StampShards(shards, shard_index, now_iso) ==
    LET hits == {i \in 1..Len(shards) :
                    "shardIndex" \in DOMAIN shards[i]
                    /\ shards[i]["shardIndex"] = shard_index}
    IN  IF hits = {} THEN shards
        ELSE LET first == CHOOSE i \in hits : \A j \in hits : i <= j
             IN  [shards EXCEPT ![first] = Put(shards[first], "lastTierUpdate", now_iso)]

\* update_config_timestamp when the file is read and written without error
update_config_timestamp(data, cluster_name, shard_index, clock) ==
    LET now_iso == IsoFormat(clock)
    IN  [i \in 1..Len(data) |->
            IF Get(data[i], "clusterName", "") = cluster_name
               /\ "shards" \in DOMAIN data[i]
            THEN Put(data[i], "shards",
                     StampShards(data[i]["shards"], shard_index, now_iso))
            ELSE data[i]]

---------------------------------------------------------------------------
(* The shard decision state machine: check_and_scale_down_shard.  The       *)
(* result names the return statement reached (outcome, why), says whether   *)
(* update_config_timestamp was called (stamp) and carries the returned      *)
(* dict (result: None or Some), with the locals the gates computed.         *)

\* a variant in which every evaluation records the time, whatever it found
VerdictRecordingAlways(outcome, why, stamp, result, current_tier, region_config, primary_process, metrics) ==
    [outcome |-> outcome, why |-> why, stamp |-> TRUE, result |-> result,
     current_tier |-> current_tier, region_config |-> region_config,
     primary_process |-> primary_process, metrics |-> metrics]

Verdict(outcome, why, stamp, result, current_tier, region_config, primary_process, metrics) ==
    [outcome |-> outcome, why |-> why, stamp |-> stamp, result |-> result,
     current_tier |-> current_tier, region_config |-> region_config,
     primary_process |-> primary_process, metrics |-> metrics]

\* a variant that never reads the disk size
DiskSizeDefaulted(region_config) == DefaultDiskSize

\* lines 602-607: the disk size the returned dict carries
CurrentDiskSize(region_config) ==
    IF region_config # None /\ Truthy(region_config[1])
    THEN Get(Get(region_config[1], "effectiveElectableSpecs", EmptyDict),
             "diskSizeGB", DefaultDiskSize)
    ELSE DefaultDiskSize

\* a variant that looks at the stored timestamp before the autoscale limits
GateStalenessFirst(shard_index, base_tier, scale_up_tier, last_tier_update, min, specs, clock, fetched) ==
    IF fetched = None \/ ~Truthy(fetched[1])
    THEN Verdict("SKIPPED", "no cluster details", FALSE, None, "", None, None, None)
    ELSE
    LET info == fetched[1]
        rc == _get_region_config(info, shard_index)
        current_tier == check_shard_tier(info, shard_index)
        End(outcome, why, stamp) ==
            Verdict(outcome, why, stamp, None, current_tier, rc, None, None)
    IN  IF ~StrTruthy(current_tier) THEN End("SKIPPED", "no current tier", FALSE)
        ELSE IF current_tier = base_tier THEN End("NO_ACTION", "at baseTier", FALSE)
        ELSE IF current_tier # scale_up_tier
        THEN End("NO_ACTION", "other tier", FALSE)
        ELSE IF base_tier \notin DOMAIN specs
        THEN End("BLOCKED", "no tier specs", FALSE)
        ELSE IF is_timestamp_very_old(last_tier_update, clock).ok
        THEN End("RECORD_AND_WAIT", "new scale-up event", TRUE)
        ELSE IF ~check_time_since_update(last_tier_update, min, clock).ok
        THEN End("WAIT", "waiting period", FALSE)
        ELSE IF Len(check_autoscale_limits(info, shard_index, base_tier,
                                           scale_up_tier)) # 0
        THEN End("BLOCKED", "autoscale limits", FALSE)
        ELSE End("FETCHING_METRICS", "time check passed", FALSE)

\* lines 520-580: the gates before the metrics; FETCHING_METRICS when all pass
GateVerdict(shard_index, base_tier, scale_up_tier, last_tier_update, min, specs, clock, fetched) ==
    IF fetched = None \/ ~Truthy(fetched[1])
    THEN Verdict("SKIPPED", "no cluster details", FALSE, None, "", None, None, None)
    ELSE
    LET info == fetched[1]
        rc == _get_region_config(info, shard_index)
        current_tier == check_shard_tier(info, shard_index)
        End(outcome, why, stamp) ==
            Verdict(outcome, why, stamp, None, current_tier, rc, None, None)
    IN  IF ~StrTruthy(current_tier) THEN End("SKIPPED", "no current tier", FALSE)
        ELSE IF current_tier = base_tier THEN End("NO_ACTION", "at baseTier", FALSE)
        ELSE IF current_tier # scale_up_tier
        THEN End("NO_ACTION", "other tier", FALSE)
        ELSE IF base_tier \notin DOMAIN specs
        THEN End("BLOCKED", "no tier specs", FALSE)
        ELSE IF Len(check_autoscale_limits(info, shard_index, base_tier,
                                           scale_up_tier)) # 0
        THEN End("BLOCKED", "autoscale limits", FALSE)
        ELSE IF is_timestamp_very_old(last_tier_update, clock).ok
        THEN End("RECORD_AND_WAIT", "new scale-up event", TRUE)
        ELSE IF ~check_time_since_update(last_tier_update, min, clock).ok
        THEN End("WAIT", "waiting period", FALSE)
        ELSE End("FETCHING_METRICS", "time check passed", FALSE)

\* a variant that takes the default summary when no process is found
SafetyWithoutProcess(cluster_name, shard_index, base_tier, current_tier, specs, info, processes, measurements) ==
    LET rc == _get_region_config(info, shard_index)
        reasons == check_safety_conditions(base_tier, current_tier,
                                           _default_metrics, specs)
    IN  IF Len(reasons) # 0
        THEN Verdict("BLOCKED", "unsafe", FALSE, None, current_tier, rc, None,
                     Some(_default_metrics))
        ELSE Verdict("ELIGIBLE", "safe", FALSE,
                     Some([shard_index |-> shard_index,
                           current_disk_size |-> CurrentDiskSize(rc)]),
                     current_tier, rc, None, Some(_default_metrics))

\* lines 582-609: the metrics, the safety check and the returned dict
EvaluateSafety(cluster_name, shard_index, base_tier, current_tier, specs, info, processes, measurements) ==
    LET primary_process ==
            get_cluster_process_for_shard(cluster_name, info, shard_index, processes)
        rc == _get_region_config(info, shard_index)
    IN  IF primary_process = None
        THEN Verdict("BLOCKED", "no primary process", FALSE, None, current_tier,
                     rc, None, None)
        ELSE LET metrics == get_cluster_metrics(primary_process[1], measurements)
                 reasons == check_safety_conditions(base_tier, current_tier,
                                                    metrics, specs)
             IN  IF Len(reasons) # 0
                 THEN Verdict("BLOCKED", "unsafe", FALSE, None, current_tier,
                              rc, primary_process, Some(metrics))
                 ELSE Verdict("ELIGIBLE", "safe", FALSE,
                              Some([shard_index |-> shard_index,
                                    current_disk_size |-> CurrentDiskSize(rc)]),
                              current_tier, rc, primary_process, Some(metrics))

\* check_and_scale_down_shard; fetched is the answer of get_cluster_details
check_and_scale_down_shard(cluster_name, shard_index, base_tier, scale_up_tier, last_tier_update, min, specs, clock, fetched, processes, measurements) ==
    LET g == GateVerdict(shard_index, base_tier, scale_up_tier, last_tier_update,
                         min, specs, clock, fetched)
    IN  IF g.outcome = "FETCHING_METRICS"
        THEN EvaluateSafety(cluster_name, shard_index, base_tier, g.current_tier,
                            specs, fetched[1], processes, measurements)
        ELSE g

---------------------------------------------------------------------------
(* The documents the collaborators answer with *)

AutoScalingOf(min_size, max_size) ==
    [compute |-> [enabled |-> TRUE, scaleDownEnabled |-> TRUE,
                  minInstanceSize |-> min_size, maxInstanceSize |-> max_size]]

ElectableOf(tier, disk) ==
    [instanceSize |-> tier, nodeCount |-> 5, diskSizeGB |-> disk,
     diskIOPS |-> 3000, ebsVolumeType |-> "PROVISIONED"]

\* a flat region config as the API reports it
RegionOf(region, tier, disk, min_size, max_size) ==
    [regionName |-> region, priority |-> 7, providerName |-> "AWS",
     electableSpecs |-> ElectableOf(tier, disk),
     effectiveElectableSpecs |-> [instanceSize |-> tier, diskSizeGB |-> disk],
     readOnlySpecs |-> [instanceSize |-> tier, nodeCount |-> 0],
     autoScaling |-> AutoScalingOf(min_size, max_size)]

\* the data of one region in the mapping form: no regionName, no providerName
MappedRegionOf(tier, disk, min_size, max_size) ==
    [electableSpecs |-> ElectableOf(tier, disk),
     effectiveElectableSpecs |-> [instanceSize |-> tier, diskSizeGB |-> disk],
     autoScaling |-> AutoScalingOf(min_size, max_size)]

\* one entry of replicationSpecs
ShardSpecOf(kind) ==
    CASE kind = "up" ->
           [id |-> "rs-a", zoneName |-> "Zone 1",
            regionConfigs |-> <<RegionOf("US_EAST_1", "M40", 1005, "M30", "M40"),
                                RegionOf("EU_WEST_1", "M40", 1005, "M30", "M40")>>]
      [] kind = "base" ->
           [id |-> "rs-b", zoneName |-> "Zone 1",
            regionConfigs |-> <<RegionOf("US_EAST_1", "M30", 800, "M30", "M40")>>]
      [] kind = "other" ->
           [id |-> "rs-c", numShards |-> 1,
            regionConfigs |-> <<RegionOf("US_EAST_1", "M50", 800, "M30", "M60")>>]
      [] kind = "mapped" ->
           [id |-> "rs-d", numShards |-> 1, zoneName |-> "Zone 1",
            regionsConfig |->
               <<[k |-> "US_WEST_2", v |-> MappedRegionOf("M40", 1200, "M30", "M40")],
                 [k |-> "EU_WEST_1",
                  v |-> Put(MappedRegionOf("M40", 1200, "M30", "M40"), "priority", 6)]>>]
      [] kind = "tight" ->
           [id |-> "rs-e",
            regionConfigs |-> <<RegionOf("US_EAST_1", "M40", 800, "M40", "M40")>>]
      [] kind = "bare" ->
           [id |-> "rs-f",
            regionConfigs |->
               <<[regionName |-> "US_EAST_1", priority |-> 7, providerName |-> "AWS",
                  effectiveElectableSpecs |-> [instanceSize |-> "M40"],
                  autoScaling |-> AutoScalingOf("M30", "M40")]>>]
      [] kind = "noregions" ->
           [id |-> "rs-g", regionConfigs |-> <<>>]
      [] kind = "fallback" ->
           [id |-> "rs-i", regionConfigs |-> <<>>,
            regionsConfig |->
               <<[k |-> "US_EAST_1", v |-> MappedRegionOf("M40", 1005, "M30", "M40")]>>]
      [] kind = "mixed" ->
           [id |-> "rs-h",
            regionConfigs |-> <<RegionOf("US_EAST_1", "M40", 1005, "M30", "M40")>>,
            regionsConfig |->
               <<[k |-> "US_EAST_1", v |-> MappedRegionOf("M40", 1005, "M30", "M40")]>>]

\* a cluster document with the given replication specs; each carries the zoneId
\* of its position
ClusterDoc(kinds) ==
    [id |-> "650f", name |-> "Cluster0", stateName |-> "IDLE",
     clusterType |-> "SHARDED", paused |-> FALSE, diskSizeGB |-> 800,
     providerSettings |-> [providerName |-> "GCP"],
     replicationSpecs |->
        [i \in 1..Len(kinds) |->
            Put(ShardSpecOf(kinds[i]), "zoneId", "zone-" \o PyStr(i))]]

\* the sequences over S of length 0..n
SeqsUpTo(S, n) == UNION {[1..k -> S] : k \in 0..n}

---------------------------------------------------------------------------
(* The inputs of a monitor run *)

\* the hour at which the run starts
StartHour == 30

\* the lastTierUpdate values a config file starts with
StoredTimestamps ==
    {NoTimestamp, [form |-> "garbage"],
     [form |-> "offset", t |-> StartHour - 2], [form |-> "Z", t |-> StartHour - 4],
     [form |-> "naive", t |-> StartHour - 10],
     [form |-> "offset", t |-> StartHour - NEW_SCALE_UP_THRESHOLD_HOURS],
     [form |-> "offset", t |-> 0], [form |-> "Z", t |-> StartHour + 2]}

FewTimestamps == {NoTimestamp, [form |-> "naive", t |-> StartHour - 10]}

\* an entry main() passes over (no scaleUpTier); its shard must stay as it is
PassedOver ==
    [clusterName |-> "Cluster0 ", baseTier |-> "M30", scaleUpTier |-> " ",
     shards |-> <<[shardIndex |-> 0, lastTierUpdate |-> [form |-> "garbage"]]>>]

\* clusterConfig.json with a two-shard cluster; one shard entry lacks its index
ConfigA(ts0, ts1) ==
    <<[clusterName |-> "Cluster0", baseTier |-> "M30", scaleUpTier |-> "M40",
       shards |-> <<[shardIndex |-> 0, lastTierUpdate |-> ts0],
                    [lastTierUpdate |-> ts0],
                    [shardIndex |-> 1, lastTierUpdate |-> ts1]>>],
      PassedOver>>

\* clusterConfig.json with two monitored clusters; the first entry's strings
\* carry whitespace, the second's shard has no lastTierUpdate key
ConfigB(ts) ==
    <<[clusterName |-> "shop ", baseTier |-> " M30", scaleUpTier |-> "M40 ",
       shards |-> <<[shardIndex |-> 0, lastTierUpdate |-> ts]>>],
      [clusterName |-> "Cluster0", baseTier |-> "M30", scaleUpTier |-> "M40",
       shards |-> <<[shardIndex |-> 1]>>]>>

ConfigFiles ==
    {ConfigA(ts0, ts1) : ts0 \in StoredTimestamps, ts1 \in FewTimestamps}
    \cup {ConfigB(ts) : ts \in FewTimestamps \cup {[form |-> "offset", t |-> 0]}}

MinHoursChoices == {4, NEW_SCALE_UP_THRESHOLD_HOURS}

\* tierConfig.csv as load_tier_specs returns it
TierSpecTables ==
    {[M30 |-> [ram |-> Rat(8, 1), connection |-> 3000, iops |-> 3000],
      M40 |-> [ram |-> Rat(16, 1), connection |-> 6000, iops |-> 3000]],
     [M40 |-> [ram |-> Rat(16, 1), connection |-> 6000, iops |-> 3000]],
     [M30 |-> [ram |-> Rat(8, 1), connection |-> 3000, iops |-> 3000]]}

\* the documents get_cluster_details answers with during a run
MaxShardSpecs == 2

\* the kinds of the first replication spec, and of the ones after it
RunShardSpecKinds == {"up", "base", "other", "mapped", "tight", "bare"}

LaterShardSpecKinds == {"up", "base"}

RunDocs ==
    {ClusterDoc(<<>>)}
    \cup {ClusterDoc(<<k>> \o rest) :
             k \in RunShardSpecKinds,
             rest \in SeqsUpTo(LaterShardSpecKinds, MaxShardSpecs - 1)}

Fetches == {None} \cup {Some(d) : d \in RunDocs}

\* the documents update_cluster_shards reads before it builds the payload
Refetches ==
    {None} \cup {Some(ClusterDoc(kinds)) :
                    kinds \in SeqsUpTo({"up", "base", "bare"}, MaxShardSpecs)}

\* the answers of get_processes
ProcessLists ==
    {<<>>,
     <<[id |-> "h1", hostname |-> "c0-00-01.net",
        replicaSetName |-> "c0-shard-0", typeName |-> "REPLICA_SECONDARY"],
       [id |-> "h0", hostname |-> "c0-00-00.net",
        replicaSetName |-> "c0-shard-0", typeName |-> "REPLICA_PRIMARY"],
       [hostname |-> "Shop-00.net",
        replicaSetName |-> "Shop-Config-0", typeName |-> "SHARD_CONFIG_SECONDARY"]>>}

Samples(values) == [measurements |-> [i \in 1..Len(values) |-> [value |-> values[i]]]]

\* the answers of get_measurements, by metric
MeasurementSets ==
    {[CPU_USER |-> None, MEMORY_RESIDENT |-> None,
      DISK_PARTITION_IOPS_TOTAL |-> None, CONNECTIONS |-> None],
     [CPU_USER |-> Some(Samples(<<10, 30>>)),
      MEMORY_RESIDENT |-> Some(Samples(<<40, 42>>)),
      DISK_PARTITION_IOPS_TOTAL |-> Some(Samples(<<100>>)),
      CONNECTIONS |-> Some([measurements |-> <<[value |-> 12], [name |-> "gap"]>>])],
     [CPU_USER |-> Some(Samples(<<30, 40>>)),
      MEMORY_RESIDENT |-> Some(Samples(<<40, 42>>)),
      DISK_PARTITION_IOPS_TOTAL |-> Some(Samples(<<100>>)),
      CONNECTIONS |-> Some(Samples(<<12>>))]}

---------------------------------------------------------------------------
(* A run of monitor_and_scale_down.py: main() and monitor_cluster() *)

NoEvaluation == [outcome |-> "NONE"]

Init ==
    /\ now = StartHour
    /\ config_file \in ConfigFiles
    /\ cluster_entries = config_file
    /\ tier_specs \in TierSpecTables
    /\ min_hours \in MinHoursChoices
    /\ pc = "main"
    /\ ci = 1
    /\ si = 1
    /\ shard_updates = <<>>
    /\ last = NoEvaluation
    /\ patches = <<>>
    /\ batch = None
    /\ topology = None

\* main(): the fields of an entry, stripped as lines 683-685 strip them
EntryName(entry) == StripWs(Get(entry, "clusterName", ""))

EntryBaseTier(entry) == StripWs(Get(entry, "baseTier", ""))

EntryScaleUpTier(entry) == StripWs(Get(entry, "scaleUpTier", ""))

\* main(): whether the loop body reaches monitor_cluster for the entry
EntryIsMonitored(entry) ==
    /\ StrTruthy(EntryName(entry))
    /\ StrTruthy(EntryBaseTier(entry))
    /\ StrTruthy(EntryScaleUpTier(entry))
    /\ Truthy(Get(entry, "shards", <<>>))

\* main(): an entry with a missing field or without shards is passed over
SkipEntry ==
    /\ pc = "main"
    /\ ci <= Len(cluster_entries)
    /\ ~EntryIsMonitored(cluster_entries[ci])
    /\ ci' = ci + 1
    /\ batch' = None
    /\ UNCHANGED <<now, config_file, cluster_entries, tier_specs, min_hours, pc,
                   si, shard_updates, last, patches, topology>>

\* main() calls monitor_cluster, which starts with no pending change
MonitorCluster ==
    /\ pc = "main"
    /\ ci <= Len(cluster_entries)
    /\ EntryIsMonitored(cluster_entries[ci])
    /\ pc' = "shards"
    /\ si' = 1
    /\ shard_updates' = <<>>
    /\ batch' = None
    /\ last' = NoEvaluation
    /\ UNCHANGED <<now, config_file, cluster_entries, tier_specs, min_hours, ci,
                   patches, topology>>

\* the shards of the cluster at hand whose evaluation ended in ELIGIBLE so far
EligibleSoFar == IF last.outcome = "NONE" THEN <<>> ELSE last.eligible

\* the state after one call of check_and_scale_down_shard that ended in v
Evaluated(entry, shard_index, v, write_ok) ==
    /\ config_file' =
          IF v.stamp /\ write_ok
          THEN update_config_timestamp(config_file, EntryName(entry), shard_index, now)
          ELSE config_file
    /\ shard_updates' =
          IF v.result # None THEN Append(shard_updates, v.result[1])
          ELSE shard_updates
    /\ last' = [ci |-> ci, si |-> si, shard_index |-> shard_index,
                write_ok |-> write_ok, verdict |-> v, outcome |-> v.outcome,
                before |-> config_file, updates_before |-> shard_updates,
                eligible |-> EligibleSoFar
                               \o (IF v.outcome = "ELIGIBLE" THEN <<shard_index>>
                                   ELSE <<>>)]
    /\ si' = si + 1

\* monitor_cluster(): one iteration of "for shard_config in shards_config".
\* write_ok says whether update_config_timestamp, when it is called, reads and
\* writes the file without an exception.
EvalShard ==
    /\ pc = "shards"
    /\ si <= Len(cluster_entries[ci]["shards"])
    /\ LET entry == cluster_entries[ci]
           shard_config == entry["shards"][si]
       IN  IF "shardIndex" \notin DOMAIN shard_config
           THEN /\ si' = si + 1
                /\ UNCHANGED <<config_file, shard_updates, last>>
           ELSE \E fetched \in Fetches :
                LET shard_index == shard_config["shardIndex"]
                    last_tier_update == Get(shard_config, "lastTierUpdate", NoTimestamp)
                    g == GateVerdict(shard_index, EntryBaseTier(entry),
                                     EntryScaleUpTier(entry), last_tier_update,
                                     min_hours, tier_specs, now, fetched)
                IN  IF g.outcome = "FETCHING_METRICS"
                    THEN \E processes \in ProcessLists, measurements \in MeasurementSets :
                            Evaluated(entry, shard_index,
                                      check_and_scale_down_shard(
                                          EntryName(entry), shard_index,
                                          EntryBaseTier(entry), EntryScaleUpTier(entry),
                                          last_tier_update, min_hours, tier_specs, now,
                                          fetched, processes, measurements),
                                      TRUE)
                    ELSE IF g.stamp
                         THEN \E write_ok \in BOOLEAN :
                                 Evaluated(entry, shard_index, g, write_ok)
                         ELSE Evaluated(entry, shard_index, g, TRUE)
    /\ UNCHANGED <<now, cluster_entries, tier_specs, min_hours, pc, ci, patches,
                   batch, topology>>

RECURSIVE StampAll(_, _, _, _, _)
\* monitor_cluster() lines 637-638: one update_config_timestamp per update;
\* writes[i] says whether the i-th call reads and writes the file without error
StampAll(data, cluster_name, updates, writes, clock) ==
    IF Len(updates) = 0 THEN data
    ELSE StampAll(IF Head(writes)
                  THEN update_config_timestamp(data, cluster_name,
                                               Head(updates).shard_index, clock)
                  ELSE data,
                  cluster_name, Tail(updates), Tail(writes), clock)

\* a variant without the return on a missing document
SentWithoutDocument(updates, target_tier, fetched) == TRUE

\* update_cluster_shards up to the PATCH request: whether the request is sent.
\* fetched is the answer of get_cluster_details
RevertIsSent(updates, target_tier, fetched) ==
    /\ fetched # None
    /\ Truthy(fetched[1])
    /\ BuildRevertPayload(fetched[1], updates, target_tier).ok

\* a variant that returns True once the request is made
TrueOnceSent(sent, patch_ok) == [sent |-> sent, ok |-> sent]

\* update_cluster_shards: whether a request went out (sent) and what is returned
\* (ok); patch_ok says whether the PATCH request raises nothing
update_cluster_shards(sent, patch_ok) == [sent |-> sent, ok |-> sent /\ patch_ok]

\* the shard indexes whose tier change "for update in shard_updates" writes
\* into the payload built from the document fetched
AppliedChanges(fetched, updates) ==
    IF fetched = None \/ ~Truthy(fetched[1]) THEN {}
    ELSE {updates[i].shard_index :
             i \in {k \in 1..Len(updates) :
                       UpdateApplies(NormalizePayload(fetched[1]),
                                     updates[k].shard_index)}}

\* the shard indexes the document fetched has at the tier
RefetchedAtTier(fetched, tier) ==
    IF fetched = None THEN {}
    ELSE {n \in 0..(Len(Get(fetched[1], "replicationSpecs", <<>>)) - 1) :
             check_shard_tier(fetched[1], n) = tier}

\* the state after lines 634-643 and the return to main(): sent says whether
\* update_cluster_shards reached its PATCH request, patch_ok whether the request
\* raised nothing
Batched(entry, fetched, sent, patch_ok, writes) ==
    LET r == update_cluster_shards(sent, patch_ok)
    IN  /\ patches' =
              IF r.sent
              THEN Append(patches, [ci |-> ci, at_si |-> si, patch_ok |-> patch_ok,
                                    cluster_name |-> EntryName(entry),
                                    shards |-> [i \in 1..Len(shard_updates) |->
                                                   shard_updates[i].shard_index]])
              ELSE patches
        /\ config_file' =
              IF r.ok
              THEN StampAll(config_file, EntryName(entry), shard_updates, writes, now)
              ELSE config_file
        /\ batch' = Some([ci |-> ci, cluster_name |-> EntryName(entry),
                          updates |-> shard_updates, eligible |-> EligibleSoFar,
                          fetched |-> (fetched # None), sent |-> r.sent,
                          applied |-> AppliedChanges(fetched, shard_updates),
                          at_scale_up |-> RefetchedAtTier(fetched,
                                                          EntryScaleUpTier(entry)),
                          patch_ok |-> patch_ok, ok |-> r.ok,
                          writes |-> writes, before |-> config_file])

\* monitor_cluster() lines 634-643, and the return to main()
UpdateBatch ==
    /\ pc = "shards"
    /\ si > Len(cluster_entries[ci]["shards"])
    /\ LET entry == cluster_entries[ci]
           all_written == [i \in 1..Len(shard_updates) |-> TRUE]
       IN  IF ~Truthy(shard_updates)
           THEN Batched(entry, None, FALSE, FALSE, all_written)
           ELSE \E fetched \in Refetches :
                IF RevertIsSent(shard_updates, EntryBaseTier(entry), fetched)
                THEN \/ Batched(entry, fetched, TRUE, FALSE, all_written)
                     \/ \E writes \in [1..Len(shard_updates) -> BOOLEAN] :
                           Batched(entry, fetched, TRUE, TRUE, writes)
                ELSE Batched(entry, fetched, FALSE, FALSE, all_written)
    /\ pc' = "main"
    /\ ci' = ci + 1
    /\ UNCHANGED <<now, cluster_entries, tier_specs, min_hours, si, shard_updates,
                   last, topology>>

\* main(): the loop over the entries ends
Finish ==
    /\ pc = "main"
    /\ ci > Len(cluster_entries)
    /\ pc' = "done"
    /\ batch' = None
    /\ UNCHANGED <<now, config_file, cluster_entries, tier_specs, min_hours, ci, si,
                   shard_updates, last, patches, topology>>

Next == SkipEntry \/ MonitorCluster \/ EvalShard \/ UpdateBatch \/ Finish

Spec == Init /\ [][Next]_vars

---------------------------------------------------------------------------
(* The payload builders of the two tools, applied to one cluster document *)

PayloadShardSpecKinds ==
    {"up", "base", "mapped", "mixed", "fallback", "noregions", "bare"}

PayloadDocs ==
    {ClusterDoc(kinds) : kinds \in SeqsUpTo(PayloadShardSpecKinds, MaxShardSpecs)}

\* the pending changes monitor_cluster hands to update_cluster_shards
PendingChanges(first, second) ==
    <<[shard_index |-> first, current_disk_size |-> 1005],
      [shard_index |-> second, current_disk_size |-> 800]>>

UpdateLists ==
    {<<>>, <<[shard_index |-> 0, current_disk_size |-> 1005]>>,
     <<[shard_index |-> 1, current_disk_size |-> 800]>>,
     <<[shard_index |-> 2, current_disk_size |-> 1205]>>,
     <<[shard_index |-> -1, current_disk_size |-> 800]>>,
     <<[shard_index |-> 0, current_disk_size |-> 1007]>>,
     PendingChanges(0, 1), PendingChanges(1, 0), PendingChanges(0, 0),
     PendingChanges(2, 0)}

\* the shardIndex lists main() of scale_up_all.py hands to scale_up_cluster
IndexLists == {<<0>>, <<1>>, <<0, 1>>, <<1, 0>>, <<0, 0>>, <<2, 0>>, <<-1, 1>>}

\* (baseTier, scaleUpTier) of the config entry
TierPairs == {<<"M30", "M40">>, <<"M40", "M50">>}

InitPayload ==
    /\ now = StartHour
    /\ config_file = <<>>
    /\ cluster_entries = <<>>
    /\ tier_specs = EmptyDict
    /\ min_hours = 0
    /\ pc = "payload"
    /\ ci = 1
    /\ si = 1
    /\ shard_updates = <<>>
    /\ last = NoEvaluation
    /\ patches = <<>>
    /\ batch = None
    /\ topology \in PayloadDocs

\* update_cluster_shards builds its payload from the document
BuildRevert ==
    /\ pc = "payload"
    /\ \E updates \in UpdateLists, target_tier \in {"M30"} :
          /\ shard_updates' = updates
          /\ batch' = Some([tool |-> "monitor", tier |-> target_tier,
                            indices |-> [i \in 1..Len(updates) |->
                                            updates[i].shard_index],
                            built |-> BuildRevertPayload(topology, updates,
                                                         target_tier)])
    /\ pc' = "built"
    /\ UNCHANGED <<now, config_file, cluster_entries, tier_specs, min_hours, ci, si,
                   last, patches, topology>>

\* scale_up_cluster builds its payload from the document
BuildScaleUp ==
    /\ pc = "payload"
    /\ \E shard_indices \in IndexLists, tiers \in TierPairs :
          batch' = Some([tool |-> "scale_up_all", tier |-> tiers[2],
                         indices |-> shard_indices,
                         built |-> BuildScaleUpPayload(topology, shard_indices,
                                                       tiers[1], tiers[2])])
    /\ pc' = "built"
    /\ UNCHANGED <<now, config_file, cluster_entries, tier_specs, min_hours, ci, si,
                   shard_updates, last, patches, topology>>

\* the same tier changes applied a second time to the payload built
ApplyAgain ==
    /\ pc = "built"
    /\ batch[1].built.payload # None
    /\ batch' =
          Some(Put(batch[1], "again",
                   IF batch[1].tool = "monitor"
                   THEN ApplyUpdates(batch[1].built.payload[1], shard_updates,
                                     batch[1].tier)
                   ELSE ScaleUpApply(batch[1].built.payload[1],
                                     batch[1].built.shards_to_scale,
                                     batch[1].tier).payload))
    /\ pc' = "again"
    /\ UNCHANGED <<now, config_file, cluster_entries, tier_specs, min_hours, ci, si,
                   shard_updates, last, patches, topology>>

NextPayload == BuildRevert \/ BuildScaleUp \/ ApplyAgain

SpecPayload == InitPayload /\ [][NextPayload]_vars

---------------------------------------------------------------------------
(* What a run shows of its last shard evaluation and of its last batch *)

\* the evaluation recorded in last is the run's latest step
JustEvaluated ==
    /\ last.outcome # "NONE"
    /\ pc = "shards"
    /\ ci = last.ci
    /\ si = last.si + 1

LastEntry == cluster_entries[last.ci]

LastBaseTier == EntryBaseTier(LastEntry)

LastScaleUpTier == EntryScaleUpTier(LastEntry)

\* the lastTierUpdate the evaluation was given
LastStored == Get(LastEntry["shards"][last.si], "lastTierUpdate", NoTimestamp)

\* the tier of the shard in the document the evaluation fetched
LastTier == TierOfRegion(last.verdict.region_config)

LastAtScaleUpTier ==
    /\ StrTruthy(LastTier)
    /\ LastTier # LastBaseTier
    /\ LastTier = LastScaleUpTier

LastBoundsPass ==
    AutoscaleReasons(last.verdict.region_config, LastBaseTier, LastScaleUpTier) = <<>>

\* the stored timestamp is an ISO timestamp
LastHasAge == _parse_timestamp(LastStored) # None

LastAge == now - _parse_timestamp(LastStored)[1]

\* the evaluation left the file and the pending changes as they were
LastChangedNothing ==
    /\ last.verdict.result = None
    /\ shard_updates = last.updates_before
    /\ config_file = last.before

\* the lastTierUpdate the file holds for a shard index of the c-th entry
StoredFor(data, c, shard_index) ==
    LET shards == data[c]["shards"]
        first == CHOOSE i \in 1..Len(shards) :
                    /\ "shardIndex" \in DOMAIN shards[i]
                    /\ shards[i]["shardIndex"] = shard_index
                    /\ \A j \in 1..(i - 1) :
                          "shardIndex" \notin DOMAIN shards[j]
                          \/ shards[j]["shardIndex"] # shard_index
    IN  Get(shards[first], "lastTierUpdate", NoTimestamp)

\* the PATCH requests of the run for the c-th entry
PatchesOf(c) == {i \in 1..Len(patches) : patches[i].ci = c}

\* the shard indexes of the last batch
BatchIndexes == {batch[1].updates[i].shard_index : i \in 1..Len(batch[1].updates)}

\* every shard entry of the file outside the last batch is as before the batch
OutsideBatchUnchanged ==
    \A c \in 1..Len(config_file) :
        IF "shards" \notin DOMAIN config_file[c] THEN config_file[c] = batch[1].before[c]
        ELSE \A j \in 1..Len(config_file[c]["shards"]) :
                \/ /\ c = batch[1].ci
                   /\ "shardIndex" \in DOMAIN config_file[c]["shards"][j]
                   /\ config_file[c]["shards"][j]["shardIndex"] \in BatchIndexes
                \/ config_file[c]["shards"][j] = batch[1].before[c]["shards"][j]

---------------------------------------------------------------------------
(* Scenario A *)

\* C1: a shard whose tier is baseTier, or a tier other than scaleUpTier, ends in
\* NO_ACTION whatever the timestamp and the metrics: no pending change, no
\* write of the timestamp file, nothing added to the batch.
C1_NoActionOffScaleUpTier ==
    (JustEvaluated
     /\ StrTruthy(LastTier)
     /\ (LastTier = LastBaseTier \/ LastTier # LastScaleUpTier))
    => /\ last.outcome = "NO_ACTION"
       /\ ~last.verdict.stamp
       /\ LastChangedNothing

C1_Witness ==
    /\ JustEvaluated
    /\ StrTruthy(LastTier)
    /\ LastTier # LastBaseTier
    /\ LastTier # LastScaleUpTier
    /\ LastStored.form = "offset"
    /\ last.outcome = "NO_ACTION"

---------------------------------------------------------------------------
(* Scenario B *)

\* C2 as stated: a shard at scaleUpTier whose timestamp is younger than
\* minDwellHours and than 24 hours ends in WAIT and changes nothing.
C2_AsStated ==
    (JustEvaluated /\ LastAtScaleUpTier /\ LastHasAge
     /\ LastAge < min_hours /\ LastAge < NEW_SCALE_UP_THRESHOLD_HOURS)
    => /\ last.outcome = "WAIT"
       /\ LastChangedNothing

\* C2: a shard at scaleUpTier whose baseTier has tier specs, whose autoscale
\* bounds pass and whose timestamp is younger than minDwellHours and than 24
\* hours ends in WAIT: no pending change, nothing added to the batch, the
\* timestamp file as it was.
C2_WaitInsideDwell ==
    (JustEvaluated /\ LastAtScaleUpTier
     /\ LastBaseTier \in DOMAIN tier_specs /\ LastBoundsPass /\ LastHasAge
     /\ LastAge < min_hours /\ LastAge < NEW_SCALE_UP_THRESHOLD_HOURS)
    => /\ last.outcome = "WAIT"
       /\ ~last.verdict.stamp
       /\ LastChangedNothing

C2_Witness ==
    /\ JustEvaluated
    /\ LastAtScaleUpTier
    /\ LastHasAge
    /\ LastAge >= 0
    /\ LastAge < min_hours
    /\ last.outcome = "WAIT"
    /\ config_file = last.before

---------------------------------------------------------------------------
(* Scenarios C and D *)

\* C3, for a run that has tier specs for baseTier and writes its file without
\* error: a shard at scaleUpTier that passes the autoscale bounds and has no
\* timestamp ends in RECORD_AND_WAIT, the file then holds the present instant
\* for the shard, and no pending change is produced.
C3_RecordsFirstSighting ==
    (JustEvaluated /\ LastAtScaleUpTier /\ LastBoundsPass
     /\ LastBaseTier \in DOMAIN tier_specs /\ last.write_ok
     /\ LastStored = NoTimestamp)
    => /\ last.outcome = "RECORD_AND_WAIT"
       /\ StoredFor(config_file, last.ci, last.shard_index) = IsoFormat(now)
       /\ last.verdict.result = None
       /\ shard_updates = last.updates_before

\* C4, for a run that has tier specs for baseTier, passes the autoscale bounds
\* and writes its file without error: a shard at scaleUpTier whose timestamp is
\* 24 hours old or older ends in RECORD_AND_WAIT with the timestamp reset to the
\* present instant, never in ELIGIBLE.
C4_NewEventBeforeDwell ==
    (JustEvaluated /\ LastAtScaleUpTier /\ LastBoundsPass
     /\ LastBaseTier \in DOMAIN tier_specs /\ last.write_ok
     /\ LastHasAge /\ LastAge >= NEW_SCALE_UP_THRESHOLD_HOURS)
    => /\ last.outcome = "RECORD_AND_WAIT"
       /\ last.outcome # "ELIGIBLE"
       /\ StoredFor(config_file, last.ci, last.shard_index) = IsoFormat(now)

---------------------------------------------------------------------------
(* Scenario E *)

\* the four means of the summary are below their thresholds
LastMeansBelowThresholds ==
    LET m == last.verdict.metrics[1]
        current_spec == tier_specs[LastTier]
        base_spec == tier_specs[LastBaseTier]
    IN  /\ ~RatGE(m.cpu_avg, Rat(CPU_THRESHOLD, 1))
        /\ ~RatGE(m.memory_avg_gb, RatMul(current_spec.ram, MEMORY_THRESHOLD_PERCENT))
        /\ ~RatGE(m.iops_avg, RatMul(Rat(current_spec.iops, 1), IOPS_THRESHOLD_PERCENT))
        /\ ~RatGE(m.connections_avg,
                  RatMul(Rat(base_spec.connection, 1), CONNECTIONS_THRESHOLD_PERCENT))

C5_Case ==
    /\ JustEvaluated
    /\ LastAtScaleUpTier
    /\ LastBoundsPass
    /\ LastBaseTier \in DOMAIN tier_specs
    /\ LastTier \in DOMAIN tier_specs
    /\ LastHasAge
    /\ LastAge >= min_hours
    /\ LastAge < NEW_SCALE_UP_THRESHOLD_HOURS
    /\ last.verdict.primary_process # None
    /\ last.verdict.metrics # None
    /\ LastMeansBelowThresholds

\* C5: a shard at scaleUpTier with bounds passing, a timestamp at least
\* minDwellHours and less than 24 hours old, a primary process found, tier
\* specs present and the four means below their thresholds ends in ELIGIBLE,
\* and the pending change it adds carries the shard's index and the disk size
\* the fetched document gives for the shard.
C5_EligibleKeepsDiskSize ==
    C5_Case
    => /\ last.outcome = "ELIGIBLE"
       /\ ~last.verdict.stamp
       /\ config_file = last.before
       /\ shard_updates = Append(last.updates_before, last.verdict.result[1])
       /\ last.verdict.result[1].shard_index = last.shard_index
       /\ LET effective_specs ==
                  Get(last.verdict.region_config[1], "effectiveElectableSpecs",
                      EmptyDict)
          IN  "diskSizeGB" \in DOMAIN effective_specs
              => last.verdict.result[1].current_disk_size
                     = effective_specs["diskSizeGB"]

C5_Witness ==
    /\ C5_Case
    /\ last.outcome = "ELIGIBLE"
    /\ last.verdict.result[1].current_disk_size # DefaultDiskSize
    /\ "diskSizeGB" \in
           DOMAIN Get(last.verdict.region_config[1], "effectiveElectableSpecs",
                      EmptyDict)

---------------------------------------------------------------------------
(* Scenario F and the batch *)

\* the last step sent a batch to update_cluster_shards and the mutation failed
BatchFailed ==
    /\ batch # None
    /\ Truthy(batch[1].updates)
    /\ ~(batch[1].sent /\ batch[1].patch_ok)

\* C6: when the mutation of a cluster fails (the PATCH request fails, or
\* update_cluster_shards returns before it), the timestamp file is as it was
\* before, and every shard of the batch still has a timestamp that passes the
\* dwell check and is no new event.
C6_FailedBatchKeepsTimestamps ==
    BatchFailed
    => /\ config_file = batch[1].before
       /\ \A i \in 1..Len(batch[1].updates) :
             LET stored == StoredFor(config_file, batch[1].ci,
                                     batch[1].updates[i].shard_index)
             IN  /\ ~is_timestamp_very_old(stored, now).ok
                 /\ check_time_since_update(stored, min_hours, now).ok

C6_Witness ==
    /\ BatchFailed
    /\ batch[1].sent
    /\ Len(batch[1].updates) > 1

\* the parts of C7 that do not depend on the re-fetch: at most one PATCH per
\* cluster, none before the last configured shard is evaluated, none for a
\* cluster without an ELIGIBLE shard, and a PATCH names exactly the ELIGIBLE
\* shards
OnePatchAfterAllShards ==
    /\ \A c \in 1..Len(cluster_entries) : Cardinality(PatchesOf(c)) <= 1
    /\ pc = "shards" => PatchesOf(ci) = {}
    /\ \A i \in 1..Len(patches) :
          patches[i].at_si > Len(cluster_entries[patches[i].ci]["shards"])
    /\ batch # None
       => /\ ~Truthy(batch[1].eligible) => PatchesOf(batch[1].ci) = {}
          /\ \A i \in PatchesOf(batch[1].ci) : patches[i].shards = batch[1].eligible

\* C7 as stated: a cluster with an ELIGIBLE shard gets exactly one PATCH.
C7_AsStated ==
    /\ OnePatchAfterAllShards
    /\ (batch # None /\ Truthy(batch[1].eligible))
       => Cardinality(PatchesOf(batch[1].ci)) = 1

\* C7: per cluster and run there is at most one PATCH, sent after every
\* configured shard was evaluated: none when no shard is ELIGIBLE, none when
\* the document cannot be fetched for the update, and otherwise exactly one,
\* which names all the ELIGIBLE shards.
C7_OnePatchPerCluster ==
    /\ OnePatchAfterAllShards
    /\ (batch # None /\ Truthy(batch[1].eligible))
       => Cardinality(PatchesOf(batch[1].ci))
              = (IF batch[1].fetched THEN 1 ELSE 0)

C7_Witness ==
    /\ batch # None
    /\ Len(batch[1].eligible) > 1
    /\ batch[1].fetched
    /\ Cardinality(PatchesOf(batch[1].ci)) = 1
    /\ Len(patches[Len(patches)].shards) > 1

\* C8, for a run that writes its file without error: after a successful
\* mutation the file holds the present instant for every shard of the batch,
\* and every other shard entry is as it was.
C8_BatchStampsItsShards ==
    (batch # None /\ batch[1].sent /\ batch[1].patch_ok
     /\ \A i \in 1..Len(batch[1].writes) : batch[1].writes[i])
    => /\ \A i \in 1..Len(batch[1].updates) :
             StoredFor(config_file, batch[1].ci, batch[1].updates[i].shard_index)
                 = IsoFormat(now)
       /\ OutsideBatchUnchanged

---------------------------------------------------------------------------
(* The payload *)

\* the replication specs of the document the payload was built from
SpecsRead == Get(topology, "replicationSpecs", <<>>)

\* C9: the payload built from a document with N replication specs, in the
\* mapping form, the flat form or both, has N replication specs in the order
\* read, and passes the two count checks.
C9_PayloadKeepsShardSpecs ==
    (pc # "payload" /\ batch # None /\ batch[1].built.payload # None)
    => LET written == Get(batch[1].built.payload[1], "replicationSpecs", <<>>)
       IN  /\ batch[1].built.ok
           /\ Len(written) = Len(SpecsRead)
           /\ \A i \in 1..Len(written) : written[i]["zoneId"] = SpecsRead[i]["zoneId"]

C9_Witness ==
    /\ pc = "built"
    /\ batch[1].tool = "monitor"
    /\ Len(SpecsRead) = MaxShardSpecs
    /\ "regionsConfig" \in DOMAIN SpecsRead[1]
    /\ "regionConfigs" \notin DOMAIN SpecsRead[1]
    /\ "regionConfigs" \in DOMAIN SpecsRead[2]
    /\ batch[1].built.payload[1] # NormalizePayload(topology)
    /\ Len(batch[1].built.payload[1]["replicationSpecs"]) = MaxShardSpecs

\* C10: the tier changes of a payload, applied a second time with the same
\* target tier and the same disk sizes, leave every region config as the first
\* application left it; this holds of update_cluster_shards and of
\* scale_up_cluster.
C10_TierChangeIdempotent ==
    pc = "again" => batch[1].again = batch[1].built.payload[1]

C10_Witness ==
    /\ pc = "again"
    /\ batch[1].tool = "scale_up_all"
    /\ Len(batch[1].built.shards_to_scale) > 1
    /\ batch[1].again # ScaleUpNormalize(topology)
    /\ batch[1].again = batch[1].built.payload[1]

---------------------------------------------------------------------------
(* The metrics aggregator and the safety evaluator on their own: a summary  *)
(* is computed from the answers of get_measurements, the safety conditions  *)
(* are checked for a pair of tiers, and are checked again after one mean of *)
(* the summary was raised.                                                  *)

\* tierConfig.csv as load_tier_specs returns it; a row without the ram, iops
\* or connection column gets 0 for it (lines 157-159)
SafetyTierSpecs ==
    {[M30 |-> [ram |-> Rat(8, 1), connection |-> 3000, iops |-> 3000],
      M40 |-> [ram |-> Rat(16, 1), connection |-> 6000, iops |-> 6000]],
     [M30 |-> [ram |-> Rat(8, 1), connection |-> 3000, iops |-> 3000],
      M40 |-> [ram |-> Zero, connection |-> 6000, iops |-> 6000]],
     [M30 |-> [ram |-> Rat(8, 1), connection |-> 0, iops |-> 3000],
      M40 |-> [ram |-> Rat(16, 1), connection |-> 6000, iops |-> 0]],
     [M40 |-> [ram |-> Rat(16, 1), connection |-> 6000, iops |-> 6000]]}

\* the primary process found: with its id, and without one
SafetyProcesses ==
    {[id |-> "h0", hostname |-> "c0-00-00.net"], [hostname |-> "c0-00-00.net"]}

\* one answer of get_measurements for all four metrics
AllSeries(answer) ==
    [CPU_USER |-> answer, MEMORY_RESIDENT |-> answer,
     DISK_PARTITION_IOPS_TOTAL |-> answer, CONNECTIONS |-> answer]

\* the answers of get_measurements, by metric: the request failed, no
\* "measurements" key, an empty list, samples without a value, and samples
SafetyMeasurementSets ==
    MeasurementSets
    \cup {AllSeries(Some([granularity |-> "PT1M"])),
          AllSeries(Some(Samples(<<>>))),
          AllSeries(Some([measurements |-> <<[name |-> "gap"], [name |-> "gap"]>>])),
          [CPU_USER |-> Some(Samples(<<34, 36>>)),
           MEMORY_RESIDENT |-> None,
           DISK_PARTITION_IOPS_TOTAL |-> Some(Samples(<<3600>>)),
           CONNECTIONS |-> Some(Samples(<<1000, 2000>>))]}

\* (base_tier, current_tier) of a call of check_safety_conditions
SafetyTierPairs == TierPairs \cup {<<"M30", "M30">>}

\* the values a mean of the summary is raised to
RaisedMeans ==
    [cpu_avg |-> {Rat(20, 1), Rat(CPU_THRESHOLD, 1), Rat(50, 1)},
     memory_avg_gb |-> {Rat(24, 5), Rat(48, 5), Rat(12, 1)},
     iops_avg |-> {Rat(1800, 1), Rat(3600, 1), Rat(5000, 1)},
     connections_avg |-> {Rat(1500, 1), Rat(4000, 1)}]

InitSafety ==
    /\ now = StartHour
    /\ config_file = <<>>
    /\ cluster_entries = <<>>
    /\ tier_specs \in SafetyTierSpecs
    /\ min_hours = 0
    /\ pc = "metrics"
    /\ ci = 1
    /\ si = 1
    /\ shard_updates = <<>>
    /\ \E primary_process \in SafetyProcesses, measurements \in SafetyMeasurementSets :
          last = [outcome |-> "NONE", primary_process |-> primary_process,
                  measurements |-> measurements]
    /\ patches = <<>>
    /\ batch = None
    /\ topology = None

\* check_and_scale_down_shard line 589: the summary of the primary process
Summarize ==
    /\ pc = "metrics"
    /\ last' = Put(last, "metrics",
                   get_cluster_metrics(last.primary_process, last.measurements))
    /\ pc' = "summary"
    /\ UNCHANGED <<now, config_file, cluster_entries, tier_specs, min_hours, ci, si,
                   shard_updates, patches, batch, topology>>

\* the record of one call of check_safety_conditions on a summary
SafetyChecked(base_tier, current_tier, metrics, raised, before) ==
    [outcome |-> "CHECKED", primary_process |-> last.primary_process,
     measurements |-> last.measurements, metrics |-> metrics,
     base_tier |-> base_tier, current_tier |-> current_tier,
     reasons |-> check_safety_conditions(base_tier, current_tier, metrics,
                                         tier_specs),
     raised |-> raised, before |-> before]

\* check_and_scale_down_shard line 592: the safety conditions of the summary
CheckSafety ==
    /\ pc = "summary"
    /\ \E tiers \in SafetyTierPairs :
          last' = SafetyChecked(tiers[1], tiers[2], last.metrics, "", None)
    /\ pc' = "checked"
    /\ UNCHANGED <<now, config_file, cluster_entries, tier_specs, min_hours, ci, si,
                   shard_updates, patches, batch, topology>>

\* the safety conditions of the same summary with one mean raised, the tiers
\* and the tier specs being the same
RaiseMean ==
    /\ pc = "checked"
    /\ \E k \in DOMAIN RaisedMeans :
       \E v \in RaisedMeans[k] :
          /\ RatGT(v, last.metrics[k])
          /\ last' = SafetyChecked(last.base_tier, last.current_tier,
                                   Put(last.metrics, k, v), k,
                                   Some([reasons |-> last.reasons]))
    /\ UNCHANGED <<now, config_file, cluster_entries, tier_specs, min_hours, pc, ci,
                   si, shard_updates, patches, batch, topology>>

NextSafety == Summarize \/ CheckSafety \/ RaiseMean

SpecSafety == InitSafety /\ [][NextSafety]_vars

\* the members of a list
Members(list) == {list[i] : i \in 1..Len(list)}

\* C11: with the tier specs and the tiers fixed, raising one mean of the summary
\* and leaving the others as they are keeps every reason check_safety_conditions
\* gave before the raise (so an unsafe summary stays unsafe).
C11_SafetyMonotone ==
    (pc = "checked" /\ last.before # None)
        => /\ Members(last.before[1].reasons) \subseteq Members(last.reasons)
           /\ (last.before[1].reasons # <<>> => last.reasons # <<>>)

\* a raise that crossed a threshold while another reason was already there
C11_Witness ==
    /\ pc = "checked"
    /\ last.before # None
    /\ last.raised = "cpu_avg"
    /\ last.before[1].reasons = <<"iops">>
    /\ last.reasons = <<"cpu", "iops">>

---------------------------------------------------------------------------
(* The two staleness checks on their own, applied to one stored timestamp *)

\* the lastTierUpdate values of a shard entry: none, no ISO timestamp, and an
\* ISO timestamp of every hour up to two hours after the check
GateTimestamps ==
    {NoTimestamp, [form |-> "garbage"]}
    \cup {[form |-> f, t |-> t] : f \in {"offset", "Z", "naive"},
                                  t \in 0..(StartHour + 2)}

\* --min-hours-since-update
GateMinHours == {0, 4, NEW_SCALE_UP_THRESHOLD_HOURS, 48}

InitStaleness ==
    /\ now = StartHour
    /\ config_file = <<>>
    /\ cluster_entries = <<>>
    /\ tier_specs = EmptyDict
    /\ min_hours \in GateMinHours
    /\ pc = "staleness"
    /\ ci = 1
    /\ si = 1
    /\ shard_updates = <<>>
    /\ \E last_tier_update \in GateTimestamps :
          last = [outcome |-> "NONE", last_tier_update |-> last_tier_update]
    /\ patches = <<>>
    /\ batch = None
    /\ topology = None

\* check_and_scale_down_shard line 561: is_timestamp_very_old
CheckVeryOld ==
    /\ pc = "staleness"
    /\ last' = Put(last, "very_old", is_timestamp_very_old(last.last_tier_update, now))
    /\ pc' = "aged"
    /\ UNCHANGED <<now, config_file, cluster_entries, tier_specs, min_hours, ci, si,
                   shard_updates, patches, batch, topology>>

\* check_and_scale_down_shard line 571: check_time_since_update
CheckDwell ==
    /\ pc = "aged"
    /\ last' = Put(last, "dwell",
                   check_time_since_update(last.last_tier_update, min_hours, now))
    /\ pc' = "dwelt"
    /\ UNCHANGED <<now, config_file, cluster_entries, tier_specs, min_hours, ci, si,
                   shard_updates, patches, batch, topology>>

NextStaleness == CheckVeryOld \/ CheckDwell

SpecStaleness == InitStaleness /\ [][NextStaleness]_vars

\* the stored timestamp is missing or is no timestamp
GateUnreadable == last.last_tier_update.form \in {"empty", "garbage"}

\* the hours from the stored timestamp to the check
GateAge == now - last.last_tier_update.t

\* C12: is_timestamp_very_old answers true for a missing or unparseable
\* timestamp and for an age of 24 hours or more, false otherwise;
\* check_time_since_update answers true iff the hours passed are at least
\* min_hours (a missing or unparseable timestamp counting as infinitely old),
\* an age equal to min_hours being enough.
C12_StalenessGate ==
    /\ pc \in {"aged", "dwelt"}
          => (last.very_old.ok
                 <=> (GateUnreadable \/ GateAge >= NEW_SCALE_UP_THRESHOLD_HOURS))
    /\ pc = "dwelt"
          => (last.dwell.ok <=> (GateUnreadable \/ GateAge >= min_hours))

\* the two boundaries at once: exactly 24 hours old with a 24 hour dwell
C12_Witness ==
    /\ pc = "dwelt"
    /\ ~GateUnreadable
    /\ GateAge = min_hours
    /\ min_hours = NEW_SCALE_UP_THRESHOLD_HOURS
    /\ last.dwell.ok
    /\ last.very_old.ok

---------------------------------------------------------------------------
(* _tier_to_number on its own, applied to one tier string *)

\* the characters of a tier string: class prefixes, another letter, digits,
\* a sign, a blank and an underscore
TierChars == {"M", "r", "X", "3", "0", "-", " ", "_"}

\* the longest tier string
MaxTierLen == 3

RECURSIVE TierStringsOfLen(_)
TierStringsOfLen(n) ==
    IF n = 0 THEN {""}
    ELSE {c \o s : c \in TierChars, s \in TierStringsOfLen(n - 1)}

\* the instance sizes of a config entry or of an autoScaling.compute block
TierStrings == UNION {TierStringsOfLen(n) : n \in 0..MaxTierLen}

InitOrdinal ==
    /\ now = StartHour
    /\ config_file = <<>>
    /\ cluster_entries = <<>>
    /\ tier_specs = EmptyDict
    /\ min_hours = 0
    /\ pc = "tier"
    /\ ci = 1
    /\ si = 1
    /\ shard_updates = <<>>
    /\ \E tier_str \in TierStrings : last = [outcome |-> "NONE", tier_str |-> tier_str]
    /\ patches = <<>>
    /\ batch = None
    /\ topology = None

\* check_autoscale_limits lines 344-347: one call of _tier_to_number
ToNumber ==
    /\ pc = "tier"
    /\ last' = Put(last, "number", _tier_to_number(last.tier_str))
    /\ pc' = "ordinal"
    /\ UNCHANGED <<now, config_file, cluster_entries, tier_specs, min_hours, ci, si,
                   shard_updates, patches, batch, topology>>

NextOrdinal == ToNumber

SpecOrdinal == InitOrdinal /\ [][NextOrdinal]_vars

\* C13: _tier_to_number gives a non-negative integer for every string, and 0
\* for the empty string.
C13_OrdinalNonNegative ==
    pc = "ordinal"
        => /\ last.number \in Nat
           /\ (last.tier_str = "" => last.number = 0)

---------------------------------------------------------------------------
(* The autoscaling bounds of a document *)

\* the regions of a replication spec, in either form, in their order
RegionsOfSpec(spec) ==
    Get(spec, "regionConfigs", <<>>) \o DictValues(Get(spec, "regionsConfig", <<>>))

\* autoScaling.compute of a region: whether it is there, and its min and max
ComputeBoundsOf(region) ==
    LET compute == Get(Get(region, "autoScaling", EmptyDict), "compute", EmptyDict)
    IN  [present |-> "autoScaling" \in DOMAIN region,
         min |-> Get(compute, "minInstanceSize", ""),
         max |-> Get(compute, "maxInstanceSize", "")]

\* the bounds of every region of every replication spec of a document
BoundsOfDocument(doc) ==
    LET specs == Get(doc, "replicationSpecs", <<>>)
    IN  [i \in 1..Len(specs) |->
            [j \in 1..Len(RegionsOfSpec(specs[i])) |->
                ComputeBoundsOf(RegionsOfSpec(specs[i])[j])]]

\* the payload update_cluster_shards built is the one it sends
RevertPayloadSent ==
    /\ pc \in {"built", "again"}
    /\ batch[1].tool = "monitor"
    /\ batch[1].built.ok

\* C14: in the payload update_cluster_shards sends, every region of every
\* replication spec, whether its shard is in the batch or not, has the
\* autoScaling.compute min and max it has in the document that was read.
C14_AutoScalingBoundsKept ==
    RevertPayloadSent
        => BoundsOfDocument(batch[1].built.payload[1]) = BoundsOfDocument(topology)

\* a batch for the first shard, given in the mapping form, of a two-shard cluster
C14_Witness ==
    /\ RevertPayloadSent
    /\ batch[1].indices = <<0>>
    /\ Len(topology["replicationSpecs"]) = MaxShardSpecs
    /\ "regionsConfig" \in DOMAIN topology["replicationSpecs"][1]
    /\ "regionConfigs" \notin DOMAIN topology["replicationSpecs"][1]
    /\ batch[1].built.payload[1] # NormalizePayload(topology)
    /\ BoundsOfDocument(topology)[1][1].min = "M30"

\* the summary and the tier specs of the check recorded in last
CheckedSpecsExist ==
    /\ last.base_tier \in DOMAIN tier_specs
    /\ last.current_tier \in DOMAIN tier_specs

\* cpuMean < 35
CpuRulePasses == last.metrics.cpu_avg.n < 35 * last.metrics.cpu_avg.d

\* ramGB > 0 and memoryMean < 0.6 * ramGB, of the current tier
MemoryRulePasses ==
    LET ram == tier_specs[last.current_tier].ram
        mean == last.metrics.memory_avg_gb
    IN  /\ ram.n > 0
        /\ 5 * mean.n * ram.d < 3 * ram.n * mean.d

\* iopsMean < 0.6 * maxIOPS, of the current tier
IopsRulePasses ==
    LET mean == last.metrics.iops_avg
    IN  5 * mean.n < 3 * tier_specs[last.current_tier].iops * mean.d

\* connectionsMean < 0.5 * maxConnections, of the base tier
ConnectionsRulePasses ==
    LET mean == last.metrics.connections_avg
    IN  2 * mean.n < tier_specs[last.base_tier].connection * mean.d

\* how many of the four rules are violated
ViolatedRules ==
    (IF CpuRulePasses THEN 0 ELSE 1) + (IF MemoryRulePasses THEN 0 ELSE 1)
    + (IF IopsRulePasses THEN 0 ELSE 1) + (IF ConnectionsRulePasses THEN 0 ELSE 1)

\* C15: check_safety_conditions answers safe iff both tiers have tier specs and
\* the four rules pass (a mean equal to its threshold fails, as does a ram that
\* is not positive); without a tier spec it gives exactly one reason, otherwise
\* one reason for each violated rule and no other.
C15_SafetyRules ==
    pc = "checked"
        => /\ (last.reasons = <<>>)
                  <=> (/\ CheckedSpecsExist
                       /\ CpuRulePasses /\ MemoryRulePasses
                       /\ IopsRulePasses /\ ConnectionsRulePasses)
           /\ ~CheckedSpecsExist => Len(last.reasons) = 1
           /\ CheckedSpecsExist
                 => /\ Len(last.reasons) = ViolatedRules
                    /\ Cardinality(Members(last.reasons)) = ViolatedRules
                    /\ ~CpuRulePasses <=> "cpu" \in Members(last.reasons)
                    /\ ~MemoryRulePasses
                          <=> Members(last.reasons)
                                  \cap {"memory", "no memory threshold"} # {}
                    /\ ~IopsRulePasses <=> "iops" \in Members(last.reasons)
                    /\ ~ConnectionsRulePasses
                          <=> "connections" \in Members(last.reasons)

\* all four means equal to their thresholds: four reasons
C15_Witness ==
    /\ pc = "checked"
    /\ CheckedSpecsExist
    /\ last.metrics.cpu_avg = Rat(35, 1)
    /\ last.metrics.memory_avg_gb = Rat(48, 5)
    /\ tier_specs[last.current_tier].ram = Rat(16, 1)
    /\ last.metrics.iops_avg = Rat(3600, 1)
    /\ tier_specs[last.current_tier].iops = 6000
    /\ last.metrics.connections_avg = Rat(1500, 1)
    /\ tier_specs[last.base_tier].connection = 3000
    /\ last.reasons = <<"cpu", "memory", "iops", "connections">>

\* the answer of get_measurements holds no sample with a value
SeriesEmpty(answer) ==
    \/ answer = None
    \/ "measurements" \notin DOMAIN answer[1]
    \/ \A i \in 1..Len(answer[1]["measurements"]) :
          "value" \notin DOMAIN answer[1]["measurements"][i]

\* the series of all four metrics are absent or empty
AllSeriesEmpty == \A name \in DOMAIN last.measurements : SeriesEmpty(last.measurements[name])

\* the summary of last is the one get_cluster_metrics returned
SummaryAsComputed ==
    \/ pc = "summary"
    \/ pc = "checked" /\ last.raised = ""

\* every field of the summary is zero
ZeroSummary ==
    /\ \A k \in DOMAIN last.metrics \ {"cpu_std"} : last.metrics[k].n = 0
    /\ last.metrics.cpu_std.root_of.n = 0

\* the limits the thresholds are taken from are positive
PositiveLimits ==
    /\ tier_specs[last.current_tier].ram.n > 0
    /\ tier_specs[last.current_tier].iops > 0
    /\ tier_specs[last.base_tier].connection > 0

\* C16 as stated: with the series of all four metrics absent or empty the
\* summary is all zeros and check_safety_conditions passes it, for every pair
\* of tiers that have tier specs.
C16_AsStated ==
    (SummaryAsComputed /\ AllSeriesEmpty)
        => /\ ZeroSummary
           /\ (pc = "checked" /\ CheckedSpecsExist) => last.reasons = <<>>

\* C16: with the series of all four metrics absent or empty the summary is all
\* zeros, and check_safety_conditions passes it for every pair of tiers that
\* have tier specs with a positive ram and iops limit of the current tier and a
\* positive connection limit of the base tier.
C16_ZeroSummaryPasses ==
    (SummaryAsComputed /\ AllSeriesEmpty)
        => /\ ZeroSummary
           /\ (pc = "checked" /\ CheckedSpecsExist /\ PositiveLimits)
                 => last.reasons = <<>>

\* a process with an id whose four series came back as empty lists
C16_Witness ==
    /\ pc = "checked"
    /\ last.raised = ""
    /\ "id" \in DOMAIN last.primary_process
    /\ last.measurements = AllSeries(Some(Samples(<<>>)))
    /\ CheckedSpecsExist
    /\ PositiveLimits
    /\ ZeroSummary
    /\ last.reasons = <<>>

---------------------------------------------------------------------------
(* A run that goes on: main() and monitor_cluster() are sequential loops, a *)
(* collaborator call returns or raises, and every handler ends, so a step   *)
(* that can be taken is taken.                                              *)

SpecFair == Spec /\ WF_vars(Next)

\* the latest evaluation got no document from get_cluster_details
FetchFailed ==
    /\ JustEvaluated
    /\ last.verdict.why = "no cluster details"

\* the latest step sent the PATCH request of a cluster and the request failed
PatchFailed ==
    /\ batch # None
    /\ batch[1].sent
    /\ ~batch[1].patch_ok

\* C17: a shard whose get_cluster_details call fails produces no pending change
\* and no write, and the loop over the shards goes on; after a failed PATCH
\* main() is at the next entry; the run ends, and ends only with every entry
\* behind it.
C17_TransportFailuresNotFatal ==
    /\ [](FetchFailed => (LastChangedNothing /\ pc = "shards" /\ si = last.si + 1))
    /\ [](PatchFailed => (pc = "main" /\ ci = batch[1].ci + 1))
    /\ [](pc = "done" => ci = Len(cluster_entries) + 1)
    /\ <>(pc = "done")

\* a run that ended after the PATCH of its first cluster failed and the fetch
\* for the last shard of its second cluster failed
C17_Witness ==
    /\ pc = "done"
    /\ \E i \in 1..Len(patches) : patches[i].ci = 1 /\ ~patches[i].patch_ok
    /\ last.outcome # "NONE"
    /\ last.ci = 2
    /\ last.verdict.why = "no cluster details"

---------------------------------------------------------------------------
(* A run of scale_up_all.py: main() over the entries of clusterConfig.json. *)
(* batch holds main's two counters, last the latest scale_up_cluster call,  *)
(* pc = "crashed" is main() ended by an exception that nothing catches.     *)

\* clusterConfig.json: two clusters to scale up, and between them the entries
\* main() passes over (a blank scaleUpTier, no shards, no shardIndex)
ScaleUpConfigs ==
    {<<[clusterName |-> "Cluster0", baseTier |-> "M30", scaleUpTier |-> "M40",
        shards |-> <<[shardIndex |-> 0, lastTierUpdate |-> ts], [shardIndex |-> 1]>>],
       PassedOver,
       [clusterName |-> "Cluster1", baseTier |-> "M30", scaleUpTier |-> "M40",
        shards |-> <<>>],
       [clusterName |-> "Cluster2", baseTier |-> "M30", scaleUpTier |-> "M40",
        shards |-> <<[lastTierUpdate |-> ts]>>],
       [clusterName |-> "shop ", baseTier |-> " M40", scaleUpTier |-> "M50 ",
        shards |-> <<[shardIndex |-> 0]>>]>> : ts \in FewTimestamps}

\* the answers of get_cluster_details in scale_up_all.py
ScaleUpFetches ==
    {None} \cup {Some(ClusterDoc(kinds)) :
                    kinds \in SeqsUpTo({"base", "up", "bare", "other", "noregions"},
                                       MaxShardSpecs)}

InitScaleUp ==
    /\ now = StartHour
    /\ config_file \in ScaleUpConfigs
    /\ cluster_entries = config_file
    /\ tier_specs = EmptyDict
    /\ min_hours = 0
    /\ pc = "main"
    /\ ci = 1
    /\ si = 1
    /\ shard_updates = <<>>
    /\ last = NoEvaluation
    /\ patches = <<>>
    /\ batch = Some([success_count |-> 0, total_clusters |-> 0])
    /\ topology = None

\* main() line 302: the shardIndex values of the entry's shards
ShardIndicesOf(shards) ==
    LET indexed == SelectSeq(shards, LAMBDA shard : "shardIndex" \in DOMAIN shard)
    IN  [i \in 1..Len(indexed) |-> indexed[i]["shardIndex"]]

\* main(): whether the loop body reaches scale_up_cluster for the entry
EntryIsScaledUp(entry) ==
    /\ EntryIsMonitored(entry)
    /\ Truthy(ShardIndicesOf(entry["shards"]))

\* update_config_timestamp of scale_up_all.py when the file is read and written
\* without error: every shard of the entry whose index is in shard_indices
ScaleUpStamp(data, cluster_name, shard_indices, clock) ==
    [i \in 1..Len(data) |->
        IF Get(data[i], "clusterName", "") = cluster_name
        THEN LET shards == Get(data[i], "shards", <<>>)
                 stamped ==
                     [j \in 1..Len(shards) |->
                         IF /\ "shardIndex" \in DOMAIN shards[j]
                            /\ \E k \in 1..Len(shard_indices) :
                                  shard_indices[k] = shards[j]["shardIndex"]
                         THEN Put(shards[j], "lastTierUpdate", IsoFormat(clock))
                         ELSE shards[j]]
             IN  IF "shards" \in DOMAIN data[i] THEN Put(data[i], "shards", stamped)
                 ELSE data[i]
        ELSE data[i]]

\* what scale_up_cluster returns: a pair (unpacks) or a bare False, with the
\* return site (why); patch_ok says whether the PATCH request raises nothing
scale_up_cluster(fetched, base_tier, scale_up_tier, shard_indices, patch_ok) ==
    LET built == BuildScaleUpPayload(IF fetched = None THEN EmptyDict ELSE fetched[1],
                                     shard_indices, base_tier, scale_up_tier)
        Returns(unpacks, success, updated_shards) ==
            [why |-> built.why, sent |-> built.ok, payload |-> built.payload,
             unpacks |-> unpacks, success |-> success,
             updated_shards |-> updated_shards]
    IN  IF built.why = "nothing to scale" THEN Returns(TRUE, TRUE, <<>>)
        ELSE IF ~built.ok THEN Returns(FALSE, FALSE, <<>>)
        ELSE IF patch_ok THEN Returns(TRUE, TRUE, built.shards_to_scale)
        ELSE Returns(TRUE, FALSE, <<>>)

\* main(): an entry with a missing field, without shards or without a shardIndex
ScaleUpSkipEntry ==
    /\ pc = "main"
    /\ ci <= Len(cluster_entries)
    /\ ~EntryIsScaledUp(cluster_entries[ci])
    /\ ci' = ci + 1
    /\ UNCHANGED <<now, config_file, cluster_entries, tier_specs, min_hours, pc, si,
                   shard_updates, last, patches, batch, topology>>

\* main() lines 307-314: the call of scale_up_cluster and the unpacking of what
\* it returns; write_ok says whether update_config_timestamp reads and writes
\* the file without error
ScaleUpCluster ==
    /\ pc = "main"
    /\ ci <= Len(cluster_entries)
    /\ EntryIsScaledUp(cluster_entries[ci])
    /\ \E fetched \in ScaleUpFetches, patch_ok, write_ok \in BOOLEAN :
       \E r \in {scale_up_cluster(fetched, EntryBaseTier(cluster_entries[ci]),
                                  EntryScaleUpTier(cluster_entries[ci]),
                                  ShardIndicesOf(cluster_entries[ci]["shards"]),
                                  patch_ok)} :
          LET entry == cluster_entries[ci]
              counted == [batch[1] EXCEPT !.total_clusters = @ + 1]
          IN  /\ last' = [outcome |-> "CALLED", ci |-> ci, returned |-> r,
                          why |-> r.why, before |-> config_file,
                          fetched |-> fetched, patch_ok |-> patch_ok]
              /\ patches' = IF r.sent
                            THEN Append(patches, [ci |-> ci, patch_ok |-> patch_ok])
                            ELSE patches
              /\ IF ~r.unpacks
                 THEN /\ pc' = "crashed"
                      /\ batch' = Some(counted)
                      /\ UNCHANGED <<ci, config_file>>
                 ELSE /\ pc' = pc
                      /\ ci' = ci + 1
                      /\ batch' = Some(IF r.success
                                       THEN [counted EXCEPT !.success_count = @ + 1]
                                       ELSE counted)
                      /\ config_file' =
                            IF r.success /\ Truthy(r.updated_shards) /\ write_ok
                            THEN ScaleUpStamp(config_file, EntryName(entry),
                                              r.updated_shards, now)
                            ELSE config_file
    /\ UNCHANGED <<now, cluster_entries, tier_specs, min_hours, si, shard_updates,
                   topology>>

\* main(): the summary and the exit code
ScaleUpFinish ==
    /\ pc = "main"
    /\ ci > Len(cluster_entries)
    /\ pc' = "done"
    /\ batch' = Some(Put(batch[1], "exit_code",
                         IF batch[1].success_count = batch[1].total_clusters
                         THEN 0 ELSE 1))
    /\ UNCHANGED <<now, config_file, cluster_entries, tier_specs, min_hours, ci, si,
                   shard_updates, last, patches, topology>>

NextScaleUp == ScaleUpSkipEntry \/ ScaleUpCluster \/ ScaleUpFinish

SpecScaleUp == InitScaleUp /\ [][NextScaleUp]_vars

\* the latest scale_up_cluster call failed before its PATCH request
ScaleUpFailedEarly ==
    /\ last.outcome = "CALLED"
    /\ last.why \in {"no cluster details", "no replicationSpecs", "count mismatch",
                     "no shards updated", "final count mismatch"}

\* C18: when scale_up_cluster fails for a cluster (no cluster details, no
\* replicationSpecs, a count mismatch, or no shard updated), main() counts the
\* cluster as not successful and goes on to the next entry, up to the summary.
C18_FailedClusterOnlyMarked ==
    ScaleUpFailedEarly
        => /\ pc \in {"main", "done"}
           /\ ci > last.ci
           /\ batch[1].success_count < batch[1].total_clusters

---------------------------------------------------------------------------
(* A sequence of runs of monitor_and_scale_down.py over one cluster with    *)
(* one shard.  Between the runs time passes and Atlas moves the shard       *)
(* between the two tiers; a PATCH that succeeds brings the shard to         *)
(* baseTier.  topology is the cluster's document at Atlas; last holds the   *)
(* latest run's outcome for the shard and, for the scale-up event at hand,  *)
(* the tier the latest run left the shard at (seen), when a run first       *)
(* observed it (first_seen_at), and for a run that reverted the shard the   *)
(* hours since then (waited).                                               *)

\* the hours a sequence of runs extends over
MaxRunHours == 8

\* the hours between two runs
RunIntervals == {2, 4}

RunsConfig ==
    <<[clusterName |-> "Cluster0", baseTier |-> "M30", scaleUpTier |-> "M40",
       shards |-> <<[shardIndex |-> 0]>>]>>

RunsTierSpecs ==
    [M30 |-> [ram |-> Rat(8, 1), connection |-> 3000, iops |-> 3000],
     M40 |-> [ram |-> Rat(16, 1), connection |-> 6000, iops |-> 3000]]

\* the document of the cluster with its shard at baseTier, at scaleUpTier
ShardAtBase == ClusterDoc(<<"base">>)

ShardAtScaleUp == ClusterDoc(<<"up">>)

\* the processes of the cluster, its primary among them
RunsProcesses ==
    <<[id |-> "h0", hostname |-> "c0-00-00.net",
       replicaSetName |-> "c0-shard-0", typeName |-> "REPLICA_PRIMARY"]>>

\* a quiet half hour and a busy one
RunsMeasurementSets ==
    {AllSeries(Some(Samples(<<10, 30>>))), AllSeries(Some(Samples(<<4000>>)))}

InitRuns ==
    /\ now = StartHour
    /\ config_file = RunsConfig
    /\ cluster_entries = config_file
    /\ tier_specs = RunsTierSpecs
    /\ min_hours = 4
    /\ pc = "runs"
    /\ ci = 1
    /\ si = 1
    /\ shard_updates = <<>>
    /\ topology \in {Some(ShardAtBase), Some(ShardAtScaleUp)}
    /\ last = [outcome |-> "NONE", seen |-> "none", first_sighting |-> FALSE,
               first_seen_at |-> None, reverted |-> FALSE, waited |-> 0]
    /\ patches = <<>>
    /\ batch = None

\* the time between two runs
TimePasses ==
    /\ pc = "runs"
    /\ \E hours \in RunIntervals :
          /\ now + hours <= StartHour + MaxRunHours
          /\ now' = now + hours
    /\ UNCHANGED <<config_file, cluster_entries, tier_specs, min_hours, pc, ci, si,
                   shard_updates, last, patches, batch, topology>>

\* Atlas scales the shard up between two runs
AtlasScalesUp ==
    /\ pc = "runs"
    /\ topology = Some(ShardAtBase)
    /\ topology' = Some(ShardAtScaleUp)
    /\ UNCHANGED <<now, config_file, cluster_entries, tier_specs, min_hours, pc, ci,
                   si, shard_updates, last, patches, batch>>

\* Atlas scales the shard down by itself
AtlasScalesDown ==
    /\ pc = "runs"
    /\ topology = Some(ShardAtScaleUp)
    /\ topology' = Some(ShardAtBase)
    /\ UNCHANGED <<now, config_file, cluster_entries, tier_specs, min_hours, pc, ci,
                   si, shard_updates, last, patches, batch>>

\* one run: main() reads the file, monitor_cluster evaluates the shard and,
\* with a pending change, calls update_cluster_shards and stamps the shard.
\* fetched is the answer of get_cluster_details in the evaluation, refetch_ok
\* says whether the one in update_cluster_shards answers, patch_ok whether the
\* PATCH raises nothing, write_ok whether the file is read and written.
\* last.seen is the tier the latest run that read the topology left the shard
\* at ("none" before any), last.first_sighting whether this run found the shard
\* at scaleUpTier when that latest run had not, last.first_seen_at the hour of
\* the run that first found the scale-up the shard is in.
OneRun ==
    /\ pc = "runs"
    /\ \E fetched \in {None, topology}, measurements \in RunsMeasurementSets :
       \E v \in {check_and_scale_down_shard(
                    EntryName(config_file[1]),
                    config_file[1]["shards"][1]["shardIndex"],
                    EntryBaseTier(config_file[1]), EntryScaleUpTier(config_file[1]),
                    Get(config_file[1]["shards"][1], "lastTierUpdate", NoTimestamp),
                    min_hours, tier_specs, now, fetched, RunsProcesses,
                    measurements)} :
       \E sendable \in {/\ v.result # None
                         /\ RevertIsSent(<<v.result[1]>>,
                                         EntryBaseTier(config_file[1]), topology)} :
       \E refetch_ok \in BOOLEAN, patch_ok \in BOOLEAN, write_ok \in BOOLEAN :
          LET entry == config_file[1]
              shard_index == entry["shards"][1]["shardIndex"]
              updates == IF v.result # None THEN <<v.result[1]>> ELSE <<>>
              r == update_cluster_shards(sendable /\ refetch_ok, patch_ok)
              recorded ==
                  IF v.stamp /\ write_ok
                  THEN update_config_timestamp(config_file, EntryName(entry),
                                               shard_index, now)
                  ELSE config_file
              observes == fetched # None /\ v.current_tier = EntryScaleUpTier(entry)
              first == observes /\ last.seen # "up"
              first_seen_at ==
                  IF first THEN Some(now)
                  ELSE IF fetched = None \/ observes THEN last.first_seen_at
                  ELSE None
          IN  /\ config_file' =
                    IF r.ok
                    THEN StampAll(recorded, EntryName(entry), updates,
                                  <<write_ok>>, now)
                    ELSE recorded
              /\ topology' = IF r.ok THEN Some(ShardAtBase) ELSE topology
              /\ last' = [outcome |-> v.outcome,
                          seen |-> IF r.ok THEN "base"
                                   ELSE IF fetched = None THEN last.seen
                                   ELSE IF observes THEN "up" ELSE "base",
                          first_sighting |-> first,
                          first_seen_at |-> first_seen_at,
                          reverted |-> r.ok,
                          waited |-> IF r.ok /\ first_seen_at # None
                                     THEN now - first_seen_at[1] ELSE 0]
    /\ cluster_entries' = config_file'
    /\ UNCHANGED <<now, tier_specs, min_hours, pc, ci, si, shard_updates, patches,
                   batch>>

NextRuns == TimePasses \/ AtlasScalesUp \/ AtlasScalesDown \/ OneRun

SpecRuns == InitRuns /\ [][NextRuns]_vars

\* C19: the run that first observes a scale-up event of the shard ends in
\* RECORD_AND_WAIT for it, and a run that reverts the shard does so at least
\* min_hours after the run that first observed the event.
C19_FirstSightingRestartsDwell ==
    /\ last.first_sighting => last.outcome = "RECORD_AND_WAIT"
    /\ last.reverted
          => /\ last.first_seen_at # None
             /\ last.waited >= min_hours

---------------------------------------------------------------------------
(* One evaluation of one shard, over documents whose autoscale limits are   *)
(* missing, incomplete or too narrow, with the requests the evaluation      *)
(* makes to its collaborators                                               *)

GateRegion == RegionOf("US_EAST_1", "M40", 800, "M30", "M40")

\* the first region of the shard: within its limits, limits above baseTier,
\* limits below scaleUpTier, no autoScaling, no compute part, no
\* minInstanceSize, no maxInstanceSize, an empty maxInstanceSize, at baseTier
GateRegions ==
    {GateRegion,
     RegionOf("US_EAST_1", "M40", 800, "M40", "M40"),
     RegionOf("US_EAST_1", "M40", 800, "M30", "M30"),
     Pop(GateRegion, "autoScaling"),
     Put(GateRegion, "autoScaling", [diskGB |-> [enabled |-> TRUE]]),
     Put(GateRegion, "autoScaling",
         [compute |-> [enabled |-> TRUE, maxInstanceSize |-> "M40"]]),
     Put(GateRegion, "autoScaling",
         [compute |-> [enabled |-> TRUE, minInstanceSize |-> "M30"]]),
     Put(GateRegion, "autoScaling",
         [compute |-> [enabled |-> TRUE, minInstanceSize |-> "M30",
                       maxInstanceSize |-> ""]]),
     RegionOf("US_EAST_1", "M30", 800, "M30", "M40")}

\* the documents get_cluster_details answers with; the last has a shard
\* without any region
GateDocs ==
    {[name |-> "Cluster0",
      replicationSpecs |-> <<[id |-> "rs-a", regionConfigs |-> <<r>>]>>] :
        r \in GateRegions}
    \cup {[name |-> "Cluster0",
           replicationSpecs |-> <<[id |-> "rs-g", regionConfigs |-> <<>>]>>]}

GateConfigs ==
    {<<[clusterName |-> "Cluster0", baseTier |-> "M30", scaleUpTier |-> "M40",
        shards |-> <<[shardIndex |-> 0, lastTierUpdate |-> ts]>>]>> :
        ts \in StoredTimestamps}

InitGate ==
    /\ now = StartHour
    /\ config_file \in GateConfigs
    /\ cluster_entries = config_file
    /\ tier_specs \in TierSpecTables
    /\ min_hours \in MinHoursChoices
    /\ pc = "gate"
    /\ ci = 1
    /\ si = 1
    /\ shard_updates = <<>>
    /\ last = [outcome |-> "NONE"]
    /\ patches = <<>>
    /\ batch = None
    /\ topology \in {Some(d) : d \in GateDocs}

\* the answers of get_processes: those of a run, the processes of another
\* cluster only, and processes of the cluster in another shard's replica set
GateProcessLists ==
    ProcessLists
    \cup {<<[id |-> "h7", hostname |-> "c7-00-00.net",
             replicaSetName |-> "c7-shard-0", typeName |-> "REPLICA_PRIMARY"]>>,
          <<[id |-> "h2", hostname |-> "c0-02-00.net",
             replicaSetName |-> "c0-shard-2", typeName |-> "REPLICA_PRIMARY"],
            [id |-> "h3", hostname |-> "c0-02-01.net",
             typeName |-> "REPLICA_SECONDARY"]>>}

\* the series get_cluster_metrics asks get_measurements for, in order
MetricNames == <<"CPU_USER", "MEMORY_RESIDENT", "DISK_PARTITION_IOPS_TOTAL", "CONNECTIONS">>

\* the requests check_and_scale_down_shard makes, in order: the cluster
\* document (line 520), the process list (line 185, reached from line 583) and
\* the four series (lines 224-257, reached from line 589)
Requests(cluster_name, shard_index, base_tier, scale_up_tier, last_tier_update, min, specs, clock, fetched, processes) ==
    LET g == GateVerdict(shard_index, base_tier, scale_up_tier, last_tier_update,
                         min, specs, clock, fetched)
    IN  <<"clusters">>
        \o
        (IF g.outcome # "FETCHING_METRICS" THEN <<>>
         ELSE LET replication_specs == Get(fetched[1], "replicationSpecs", <<>>)
                  primary_process ==
                      get_cluster_process_for_shard(cluster_name, fetched[1],
                                                    shard_index, processes)
              IN  (IF ~Truthy(replication_specs) \/ shard_index < 0
                      \/ shard_index >= Len(replication_specs)
                   THEN <<>> ELSE <<"processes">>)
                  \o
                  (IF primary_process = None THEN <<>>
                   ELSE IF "id" \notin DOMAIN primary_process[1]
                           \/ ~StrTruthy(primary_process[1]["id"])
                   THEN <<>> ELSE MetricNames))

\* check_and_scale_down_shard for the shard of the entry; fetched is the answer
\* of get_cluster_details, write_ok whether update_config_timestamp reads and
\* writes the file without an exception
GateShard ==
    /\ pc = "gate"
    /\ \E fetched \in {None, topology}, processes \in GateProcessLists,
          measurements \in RunsMeasurementSets, write_ok \in BOOLEAN :
       \E v \in {check_and_scale_down_shard(
                    EntryName(config_file[1]),
                    config_file[1]["shards"][1]["shardIndex"],
                    EntryBaseTier(config_file[1]), EntryScaleUpTier(config_file[1]),
                    Get(config_file[1]["shards"][1], "lastTierUpdate", NoTimestamp),
                    min_hours, tier_specs, now, fetched, processes, measurements)} :
          /\ config_file' =
                IF v.stamp /\ write_ok
                THEN update_config_timestamp(
                         config_file, EntryName(config_file[1]),
                         config_file[1]["shards"][1]["shardIndex"], now)
                ELSE config_file
          /\ shard_updates' =
                IF v.result # None THEN <<v.result[1]>> ELSE shard_updates
          /\ last' = [outcome |-> v.outcome, why |-> v.why,
                      fetched |-> fetched # None,
                      before |-> config_file,
                      located |->
                         /\ fetched # None
                         /\ get_cluster_process_for_shard(
                                EntryName(config_file[1]), fetched[1],
                                config_file[1]["shards"][1]["shardIndex"],
                                processes) # None,
                      requests |->
                         Requests(EntryName(config_file[1]),
                                  config_file[1]["shards"][1]["shardIndex"],
                                  EntryBaseTier(config_file[1]),
                                  EntryScaleUpTier(config_file[1]),
                                  Get(config_file[1]["shards"][1],
                                      "lastTierUpdate", NoTimestamp),
                                  min_hours, tier_specs, now, fetched, processes)]
    /\ pc' = "gated"
    /\ UNCHANGED <<now, cluster_entries, tier_specs, min_hours, ci, si, patches,
                   batch, topology>>

NextGate == GateShard

SpecGate == InitGate /\ [][NextGate]_vars

\* the region the evaluation read the shard's tier and limits from
GateRegionRead == _get_region_config(topology[1], 0)

\* the evaluation found the shard at scaleUpTier
GateAtScaleUpTier ==
    /\ pc = "gated"
    /\ last.fetched
    /\ TierOfRegion(GateRegionRead) = EntryScaleUpTier(cluster_entries[1])

\* check_autoscale_limits fails for the shard
GateBoundsFail ==
    AutoscaleReasons(GateRegionRead, EntryBaseTier(cluster_entries[1]),
                     EntryScaleUpTier(cluster_entries[1])) # <<>>

\* neither the process list nor a series was asked for
NothingMeasured == \A i \in 1..Len(last.requests) : last.requests[i] = "clusters"

\* C20: a shard at scaleUpTier whose autoscale limits check fails ends BLOCKED
\* by the tier specs or by the limits, whatever its stored timestamp: the file
\* is left as it was and no process list and no series is requested; an
\* evaluation that ends RECORD_AND_WAIT or WAIT requests none either.
C20_GatesShortCircuit ==
    /\ GateAtScaleUpTier /\ GateBoundsFail
          => /\ last.outcome = "BLOCKED"
             /\ last.why \in {"no tier specs", "autoscale limits"}
             /\ config_file = last.before
             /\ NothingMeasured
    /\ pc = "gated" /\ last.outcome \in {"RECORD_AND_WAIT", "WAIT"}
          => NothingMeasured

\* a shard at scaleUpTier with limits that exclude it and no usable timestamp
\* was evaluated with the tier specs present
C20_Witness ==
    /\ GateAtScaleUpTier
    /\ GateBoundsFail
    /\ last.why = "autoscale limits"
    /\ is_timestamp_very_old(
           Get(cluster_entries[1]["shards"][1], "lastTierUpdate", NoTimestamp),
           now).ok

---------------------------------------------------------------------------
(* check_autoscale_limits over tier names that int() rejects *)

\* tier names: two instance sizes, an M0, and names int() raises on
LimitTiers == {"M30", "M40", "M0", "MX", "XL"}

InitLimits ==
    /\ now = StartHour
    /\ config_file = <<>>
    /\ cluster_entries = <<>>
    /\ tier_specs = EmptyDict
    /\ min_hours = 0
    /\ pc = "limits"
    /\ ci = 1
    /\ si = 1
    /\ shard_updates = <<>>
    /\ \E base_tier \in LimitTiers, scale_up_tier \in LimitTiers,
          min_instance_size \in LimitTiers, max_instance_size \in LimitTiers :
          last = [outcome |-> "NONE", base_tier |-> base_tier,
                  scale_up_tier |-> scale_up_tier,
                  min_instance_size |-> min_instance_size,
                  max_instance_size |-> max_instance_size]
    /\ patches = <<>>
    /\ batch = None
    /\ topology = None

\* check_autoscale_limits for shard 0 of a document whose first region carries
\* the limits
CheckLimits ==
    /\ pc = "limits"
    /\ last' = Put(last, "reasons",
                   check_autoscale_limits(
                       [name |-> "Cluster0",
                        replicationSpecs |->
                           <<[id |-> "rs-a",
                              regionConfigs |->
                                 <<RegionOf("US_EAST_1", "M40", 800,
                                            last.min_instance_size,
                                            last.max_instance_size)>>]>>],
                       0, last.base_tier, last.scale_up_tier))
    /\ pc' = "limited"
    /\ UNCHANGED <<now, config_file, cluster_entries, tier_specs, min_hours, ci, si,
                   shard_updates, patches, batch, topology>>

NextLimits == CheckLimits

SpecLimits == InitLimits /\ [][NextLimits]_vars

\* _tier_to_number reaches its except branch for the name (lines 125-128)
ParseFails(tier_str) ==
    /\ StrTruthy(tier_str)
    /\ PyInt(IF SubSeq(tier_str, 1, 1) \in {"M", "R", "m", "r"}
             THEN StrTail(tier_str) ELSE tier_str) = None

\* C21: check_autoscale_limits does not pass when baseTier, scaleUpTier,
\* minInstanceSize or maxInstanceSize is a name that fails to parse.
C21_UnparseableTierNeverPasses ==
    pc = "limited"
      /\ \/ ParseFails(last.base_tier)
         \/ ParseFails(last.scale_up_tier)
         \/ ParseFails(last.min_instance_size)
         \/ ParseFails(last.max_instance_size)
      => last.reasons # <<>>

\* the evaluation asked for the process list
ProcessesAsked ==
    /\ pc = "gated"
    /\ \E i \in 1..Len(last.requests) : last.requests[i] = "processes"

\* C22: an evaluation ends ELIGIBLE only with a primary process located; when
\* the process list was asked for and no process was located, it ends BLOCKED
\* and adds no pending change.
C22_NoProcessNeverEligible ==
    /\ pc = "gated" /\ last.outcome = "ELIGIBLE" => last.located
    /\ ProcessesAsked /\ ~last.located
          => /\ last.outcome = "BLOCKED"
             /\ shard_updates = <<>>

\* an evaluation that had passed every gate located no process for the shard
C22_Witness ==
    /\ ProcessesAsked
    /\ ~last.located
    /\ last.why = "no primary process"

---------------------------------------------------------------------------
(* get_cluster_process_for_shard over process lists *)

\* the processes a project reports: of two clusters, in data and config
\* replica sets, primaries and secondaries, one without a replica set name
ProcessPool ==
    {[id |-> "h0", hostname |-> "c0-00-00.net",
      replicaSetName |-> "c0-shard-0", typeName |-> "REPLICA_PRIMARY"],
     [id |-> "h1", hostname |-> "c0-00-01.net",
      replicaSetName |-> "c0-shard-0", typeName |-> "REPLICA_SECONDARY"],
     [id |-> "h2", hostname |-> "C0-cfg-00.net",
      replicaSetName |-> "c0-Config-0", typeName |-> "SHARD_CONFIG_PRIMARY"],
     [id |-> "h3", hostname |-> "c0-01-00.net",
      replicaSetName |-> "c0-shard-1", typeName |-> "REPLICA_SECONDARY"],
     [id |-> "h4", hostname |-> "Shop-00.net",
      replicaSetName |-> "Shop-shard-0", typeName |-> "REPLICA_PRIMARY"],
     [id |-> "h5", hostname |-> "c0-03-00.net", typeName |-> "REPLICA_PRIMARY"]}

\* the longest process list
MaxProcesses == 3

\* the cluster document: three shards
LocateDoc == ClusterDoc(<<"up", "up", "base">>)

InitLocate ==
    /\ now = StartHour
    /\ config_file = <<>>
    /\ cluster_entries = <<>>
    /\ tier_specs = EmptyDict
    /\ min_hours = 0
    /\ pc = "locate"
    /\ ci = 1
    /\ si = 1
    /\ shard_updates = <<>>
    /\ \E cluster_name \in {"Cluster0", "shop"}, shard_index \in 0..2,
          processes \in SeqsUpTo(ProcessPool, MaxProcesses) :
          last = [outcome |-> "NONE", cluster_name |-> cluster_name,
                  shard_index |-> shard_index, processes |-> processes]
    /\ patches = <<>>
    /\ batch = None
    /\ topology = Some(LocateDoc)

\* check_and_scale_down_shard line 583: the call of
\* get_cluster_process_for_shard
Locate ==
    /\ pc = "locate"
    /\ last' = Put(last, "primary_process",
                   get_cluster_process_for_shard(last.cluster_name, topology[1],
                                                 last.shard_index, last.processes))
    /\ pc' = "located"
    /\ UNCHANGED <<now, config_file, cluster_entries, tier_specs, min_hours, ci, si,
                   shard_updates, patches, batch, topology>>

NextLocate == Locate

SpecLocate == InitLocate /\ [][NextLocate]_vars

\* the positions of the processes whose hostname contains the cluster-id
\* fragment and whose replica set name matches the pattern of the shard
MatchingPositions ==
    {i \in 1..Len(last.processes) :
        LET p == last.processes[i]
            replica_set == Lower(Get(p, "replicaSetName", ""))
        IN  /\ Contains(Lower(Get(p, "hostname", "")),
                        Remove(Lower(last.cluster_name), "cluster"))
            /\ IF last.shard_index = 0
               THEN Contains(replica_set, "config") \/ Contains(replica_set, "shard-0")
               ELSE Contains(replica_set, "shard-" \o PyStr(last.shard_index - 1))}

\* those among them with a primary role
PrimaryPositions ==
    {i \in MatchingPositions :
        Get(last.processes[i], "typeName", "") \in
            {"REPLICA_PRIMARY", "SHARD_CONFIG_PRIMARY"}}

\* C23: get_cluster_process_for_shard returns the first matching process with a
\* primary role if a match has one, else the first matching process, and None
\* when no process matches.
C23_FirstPrimaryElseFirstMatch ==
    pc = "located"
      => last.primary_process =
            IF MatchingPositions = {} THEN None
            ELSE IF PrimaryPositions # {}
            THEN Some(last.processes[CHOOSE i \in PrimaryPositions :
                                        \A j \in PrimaryPositions : i <= j])
            ELSE Some(last.processes[CHOOSE i \in MatchingPositions :
                                        \A j \in MatchingPositions : i <= j])

\* a primary was returned although a matching secondary stands before it
C23_Witness ==
    /\ pc = "located"
    /\ PrimaryPositions # {}
    /\ \E i \in MatchingPositions : \A j \in PrimaryPositions : i < j

---------------------------------------------------------------------------
(* The payload of update_cluster_shards against the document it was built   *)
(* from                                                                     *)

\* update_cluster_shards has built its payload
RevertBuilt ==
    /\ pc = "built"
    /\ batch[1].tool = "monitor"
    /\ batch[1].built.payload # None

\* the shard indexes of the batch whose first region config, after the
\* normalisation, has electableSpecs
AppliedIndices ==
    {shard_updates[i].shard_index : i \in 1..Len(shard_updates)}
        \cap {n \in 0..(Len(Get(topology, "replicationSpecs", <<>>)) - 1) :
                 LET rc == _get_region_config(NormalizePayload(topology), n)
                 IN  /\ rc # None
                     /\ Truthy(rc[1])
                     /\ "electableSpecs" \in DOMAIN rc[1]}

\* the disk size of the last pending change of the batch for the shard
PreservedDiskSize(n) ==
    LET at == {i \in 1..Len(shard_updates) : shard_updates[i].shard_index = n}
    IN  shard_updates[CHOOSE i \in at : \A j \in at : j <= i].current_disk_size

\* the first region config of the shard before and after the tier change
RegionBefore(n) == _get_region_config(NormalizePayload(topology), n)[1]

RegionAfter(n) == _get_region_config(batch[1].built.payload[1], n)[1]

\* a disk size in tenths of a GB cut to whole GB, and brought to the nearest GB
WholeGB(x) == (x \div 10) * 10

NearestGB(x) == ((x + 5) \div 10) * 10

TierChangeKeys == {"instanceSize", "nodeCount", "diskSizeGB", "diskIOPS", "ebsVolumeType"}

\* the first region config of shard n carries the tier change with the given
\* disk size, and nothing else of it differs
TierChangeSet(n, disk) ==
    LET e == RegionAfter(n)["electableSpecs"]
        e0 == RegionBefore(n)["electableSpecs"]
    IN  /\ DOMAIN e = (DOMAIN e0 \cup TierChangeKeys) \ {"diskIOPS"}
        /\ e["instanceSize"] = batch[1].tier
        /\ e["nodeCount"] = 3
        /\ e["diskSizeGB"] = disk
        /\ e["ebsVolumeType"] = "STANDARD"
        /\ \A k \in DOMAIN e0 \ TierChangeKeys : e[k] = e0[k]
        /\ DOMAIN RegionAfter(n) = DOMAIN RegionBefore(n)
        /\ \A k \in DOMAIN RegionAfter(n) \ {"electableSpecs"} :
              RegionAfter(n)[k] = RegionBefore(n)[k]

\* C24 as stated: the disk size written is the preserved one rounded to the
\* nearest GB.
C24_AsStated ==
    RevertBuilt => \A n \in AppliedIndices : TierChangeSet(n, NearestGB(PreservedDiskSize(n)))

\* C24: for each shard of the batch whose first region config has
\* electableSpecs, the payload carries in them instanceSize = target tier,
\* nodeCount = 3, diskSizeGB = the preserved disk size cut to whole GB, no
\* diskIOPS and ebsVolumeType = STANDARD, and no other key of that region
\* config differs.
C24_TierChangeSetsExactly ==
    RevertBuilt => \A n \in AppliedIndices : TierChangeSet(n, WholeGB(PreservedDiskSize(n)))

\* a change with a disk size of 100.7 GB was applied to electableSpecs that
\* carried an IOPS override
C24_Witness ==
    /\ RevertBuilt
    /\ \E n \in AppliedIndices :
          /\ PreservedDiskSize(n) = 1007
          /\ "diskIOPS" \in DOMAIN RegionBefore(n)["electableSpecs"]

SizingKeys == {"electableSpecs", "analyticsSpecs", "readOnlySpecs", "autoScaling"}

\* the sizing fields a region carries
SizingOf(region) == [k \in SizingKeys \cap DOMAIN region |-> region[k]]

\* the regions of shard n in the document read and in the payload built
RegionsRead(n) == RegionsOfSpec(topology["replicationSpecs"][n + 1])

RegionsSent(n) == RegionsOfSpec(batch[1].built.payload[1]["replicationSpecs"][n + 1])

ShardIndexes == 0..(Len(Get(topology, "replicationSpecs", <<>>)) - 1)

PendingIndexes == {shard_updates[i].shard_index : i \in 1..Len(shard_updates)}

\* C25: in the payload update_cluster_shards builds, every region of a shard
\* that is not in the batch has the sizing fields of the document read, and
\* of a shard in the batch every region but the first is as it was read.
C25_SiblingShardsUntouched ==
    RevertBuilt
      => \A n \in ShardIndexes :
            /\ Len(RegionsSent(n)) = Len(RegionsRead(n))
            /\ \A j \in 1..Len(RegionsRead(n)) :
                  n \notin PendingIndexes \/ j > 1
                     => SizingOf(RegionsSent(n)[j]) = SizingOf(RegionsRead(n)[j])

\* the change of one shard was applied to a payload that holds a second shard
\* outside the batch, and the changed shard has a second region
C25_Witness ==
    /\ RevertBuilt
    /\ \E n \in AppliedIndices, m \in ShardIndexes \ PendingIndexes :
          /\ Len(RegionsRead(n)) > 1
          /\ Len(RegionsRead(m)) > 0
          /\ SizingOf(RegionsSent(n)[1]) # SizingOf(RegionsRead(n)[1])

\* a payload was built, by either tool
PayloadBuilt ==
    /\ pc = "built"
    /\ batch[1].built.payload # None

\* providerSettings.providerName of the document read, "AWS" without it
ProviderRead == Get(Get(topology, "providerSettings", EmptyDict), "providerName", "AWS")

\* C26: no replication spec of a payload carries regionsConfig, and a spec
\* that was read with a regionsConfig mapping has one regionConfigs entry per
\* mapped region, with the region's name, its priority (7 when it declares
\* none) and the provider of the cluster.
C26_FlatFormOnly ==
    PayloadBuilt
      => \A n \in ShardIndexes :
            LET read == topology["replicationSpecs"][n + 1]
                sent == batch[1].built.payload[1]["replicationSpecs"][n + 1]
                mapping == Get(read, "regionsConfig", <<>>)
                flat == Get(sent, "regionConfigs", <<>>)
            IN  /\ "regionsConfig" \notin DOMAIN sent
                /\ "regionsConfig" \in DOMAIN read
                      => /\ Len(flat) = Len(mapping)
                         /\ \A j \in 1..Len(mapping) :
                               /\ Get(flat[j], "regionName", "") = mapping[j].k
                               /\ Get(flat[j], "priority", 0)
                                     = Get(mapping[j].v, "priority", 7)
                               /\ Get(flat[j], "providerName", "") = ProviderRead

---------------------------------------------------------------------------
(* What a call of scale_up_cluster from main() changed *)

\* scale_up_cluster was called for the entry last.ci and read a document with
\* replication specs
ScaleUpCalled ==
    /\ last.outcome = "CALLED"
    /\ last.fetched # None
    /\ Truthy(Get(last.fetched[1], "replicationSpecs", <<>>))

\* the shard indexes of the entry that the document read shows at baseTier
IndexesAtBaseTier ==
    LET entry == cluster_entries[last.ci]
        shard_indices == ShardIndicesOf(entry["shards"])
    IN  {shard_indices[i] : i \in 1..Len(shard_indices)}
            \cap {n \in 0..(Len(last.fetched[1]["replicationSpecs"]) - 1) :
                     TierOfRegion(_get_region_config(last.fetched[1], n))
                         = EntryBaseTier(entry)}

\* the shard entries of the file the call changed, as <<entry, shard>> positions
StampedByCall ==
    UNION {{<<c, j>> : j \in {i \in 1..Len(Get(config_file[c], "shards", <<>>)) :
                                  config_file[c]["shards"][i]
                                      # last.before[c]["shards"][i]}} :
              c \in 1..Len(config_file)}

\* C27: scale_up_cluster changes in its payload only shards it found at
\* baseTier; with no shard at baseTier it sends no PATCH and returns success
\* with an empty list, and nothing is stamped; a shard entry is stamped only
\* when the PATCH succeeded and the shard is among those returned.
C27_OnlyBaseTierShardsScaled ==
    ScaleUpCalled
      => /\ last.returned.payload # None
               => \A n \in 0..(Len(last.fetched[1]["replicationSpecs"]) - 1) :
                     n \notin IndexesAtBaseTier
                        => LET read == RegionsOfSpec(
                                           last.fetched[1]["replicationSpecs"][n + 1])
                               sent == RegionsOfSpec(
                                           last.returned.payload[1]
                                               ["replicationSpecs"][n + 1])
                           IN  /\ Len(sent) = Len(read)
                               /\ \A j \in 1..Len(read) :
                                     SizingOf(sent[j]) = SizingOf(read[j])
         /\ IndexesAtBaseTier = {}
               => /\ ~last.returned.sent
                  /\ last.returned.unpacks
                  /\ last.returned.success
                  /\ last.returned.updated_shards = <<>>
                  /\ StampedByCall = {}
         /\ \A at \in StampedByCall :
               /\ last.returned.sent
               /\ last.patch_ok
               /\ at[1] = last.ci
               /\ \E k \in 1..Len(last.returned.updated_shards) :
                     /\ last.returned.updated_shards[k]
                           = config_file[at[1]]["shards"][at[2]]["shardIndex"]
                     /\ last.returned.updated_shards[k] \in IndexesAtBaseTier

\* a PATCH succeeded for a cluster with one shard at baseTier and one that is
\* not, and the first was stamped
C27_Witness ==
    /\ ScaleUpCalled
    /\ last.returned.sent
    /\ last.patch_ok
    /\ StampedByCall # {}
    /\ \E n \in 0..(Len(last.fetched[1]["replicationSpecs"]) - 1) :
          /\ n \notin IndexesAtBaseTier
          /\ TierOfRegion(_get_region_config(last.fetched[1], n))
                = EntryScaleUpTier(cluster_entries[last.ci])

---------------------------------------------------------------------------
(* Runs of monitor_and_scale_down.py at any distance from each other, with  *)
(* scale_up_all.py run in between.  The hours are counted back from the     *)
(* present: when h hours pass, now stays and every stored timestamp lies h  *)
(* hours earlier; an age stops growing at MaxAge hours, which is beyond     *)
(* both the dwell and the staleness threshold.  last holds the latest run's *)
(* outcome, whether it made the PATCH request (sent), the lastTierUpdate it *)
(* was handed (stored), the hours since that run (since_run), whether the   *)
(* runs so far were all 24 hours or more apart (gaps: "none" before the     *)
(* second run), whether the file's timestamp was written by something other *)
(* than a monitor run (foreign) and whether the timestamp handed to the     *)
(* latest run was (foreign_read).                                           *)

\* the age, in hours, at which a timestamp stops growing older
MaxAge == 26

\* the hours that pass in one step
DwellGaps == {4, 23, 24}

DwellMinHours == {4, 8, 24}

\* a timestamp hours later: as old as it was plus hours, up to MaxAge
Recede(timestamp, hours, clock) ==
    IF timestamp.form \in {"empty", "garbage"} THEN timestamp
    ELSE [timestamp EXCEPT !.t = IF @ - hours < clock - MaxAge
                                 THEN clock - MaxAge ELSE @ - hours]

\* the config file hours later
RecedeFile(data, hours, clock) ==
    [i \in 1..Len(data) |->
        Put(data[i], "shards",
            [j \in 1..Len(data[i]["shards"]) |->
                IF "lastTierUpdate" \in DOMAIN data[i]["shards"][j]
                THEN Put(data[i]["shards"][j], "lastTierUpdate",
                         Recede(data[i]["shards"][j]["lastTierUpdate"], hours, clock))
                ELSE data[i]["shards"][j]])]

\* the lastTierUpdate main() hands to monitor_cluster for the shard
DwellStored == Get(config_file[1]["shards"][1], "lastTierUpdate", NoTimestamp)

InitDwell ==
    /\ now = StartHour
    /\ \E stored \in {NoTimestamp, IsoFormat(StartHour - 4),
                      IsoFormat(StartHour - NEW_SCALE_UP_THRESHOLD_HOURS)} :
          /\ config_file =
                IF stored = NoTimestamp THEN RunsConfig
                ELSE <<Put(RunsConfig[1], "shards",
                           <<[shardIndex |-> 0, lastTierUpdate |-> stored]>>)>>
          /\ last = [outcome |-> "NONE", sent |-> FALSE, stored |-> NoTimestamp,
                     since_run |-> 0, gaps |-> "none", ran |-> FALSE,
                     foreign |-> stored # NoTimestamp, foreign_read |-> FALSE]
    /\ cluster_entries = config_file
    /\ tier_specs = RunsTierSpecs
    /\ min_hours \in DwellMinHours
    /\ pc = "dwell"
    /\ ci = 1
    /\ si = 1
    /\ shard_updates = <<>>
    /\ topology \in {Some(ShardAtBase), Some(ShardAtScaleUp)}
    /\ patches = <<>>
    /\ batch = None

\* hours pass, one of gaps, with less than within hours between two runs
ElapseBy(gaps, within) ==
    /\ pc = "dwell"
    /\ \E hours \in gaps :
          /\ last.since_run + hours < within
          /\ config_file' = RecedeFile(config_file, hours, now)
          /\ last' = [last EXCEPT !.since_run = IF @ + hours > MaxAge THEN MaxAge
                                                ELSE @ + hours]
    /\ cluster_entries' = config_file'
    /\ UNCHANGED <<now, tier_specs, min_hours, pc, ci, si, shard_updates, patches,
                   batch, topology>>

Elapse == ElapseBy(DwellGaps, 2 * MaxAge)

\* scale_up_all.py runs: it finds the shard at baseTier, its PATCH brings the
\* shard to scaleUpTier and main() stamps the shard
CompanionScalesUp ==
    /\ pc = "dwell"
    /\ topology = Some(ShardAtBase)
    /\ topology' = Some(ShardAtScaleUp)
    /\ config_file' = ScaleUpStamp(config_file, EntryName(config_file[1]), <<0>>, now)
    /\ cluster_entries' = config_file'
    /\ last' = [last EXCEPT !.foreign = TRUE]
    /\ UNCHANGED <<now, tier_specs, min_hours, pc, ci, si, shard_updates, patches,
                   batch>>

\* Atlas moves the shard between the tiers by itself
AtlasMovesShard ==
    /\ pc = "dwell"
    /\ topology' = IF topology = Some(ShardAtBase) THEN Some(ShardAtScaleUp)
                   ELSE Some(ShardAtBase)
    /\ UNCHANGED <<now, config_file, cluster_entries, tier_specs, min_hours, pc, ci,
                   si, shard_updates, last, patches, batch>>

\* what get_cluster_details answers in the evaluation: nothing, or the document
\* with the shard at baseTier or at scaleUpTier
DwellFetch(kind) ==
    IF kind = "none" THEN None
    ELSE IF kind = "base" THEN Some(ShardAtBase) ELSE Some(ShardAtScaleUp)

\* the tier Atlas has the shard at
TopologyKind == IF topology = Some(ShardAtBase) THEN "base" ELSE "up"

\* what get_measurements returns: a quiet half hour or a busy one
DwellMeasurements(quiet) ==
    IF quiet THEN AllSeries(Some(Samples(<<10, 30>>)))
    ELSE AllSeries(Some(Samples(<<4000>>)))

\* the lastTierUpdate of an age in hours, none below 0; and the age of one
DwellTimestamp(age) == IF age < 0 THEN NoTimestamp ELSE IsoFormat(StartHour - age)

DwellAge(timestamp) == IF timestamp = NoTimestamp THEN 0 - 1 ELSE StartHour - timestamp.t

\* check_and_scale_down_shard for the shard of RunsConfig at StartHour, once for
\* every answer of get_cluster_details, every return of get_measurements, every
\* age of the stored timestamp and every min_hours
Evaluations ==
    [kind \in {"none", "base", "up"}, quiet \in BOOLEAN, age \in (0 - 1)..MaxAge, min \in DwellMinHours |->
        check_and_scale_down_shard(
            EntryName(RunsConfig[1]), RunsConfig[1]["shards"][1]["shardIndex"],
            EntryBaseTier(RunsConfig[1]), EntryScaleUpTier(RunsConfig[1]),
            DwellTimestamp(age), min, RunsTierSpecs, StartHour, DwellFetch(kind),
            RunsProcesses, DwellMeasurements(quiet))]

\* whether update_cluster_shards, handed the pending change of an evaluation,
\* gets to its PATCH request when its own get_cluster_details returns the
\* document the evaluation read
Sendable ==
    [kind \in {"none", "base", "up"}, quiet \in BOOLEAN, age \in (0 - 1)..MaxAge, min \in DwellMinHours |->
        /\ Evaluations[kind, quiet, age, min].result # None
        /\ RevertIsSent(<<Evaluations[kind, quiet, age, min].result[1]>>,
                        EntryBaseTier(RunsConfig[1]), DwellFetch(kind))]

\* one run of the monitor, as OneRun: kinds are the answers get_cluster_details
\* may give in the evaluation, quiets what get_measurements may return,
\* transports whether the requests of update_cluster_shards may succeed,
\* writes whether the file may be read and written
Run(kinds, quiets, transports, writes) ==
    /\ pc = "dwell"
    /\ \E kind \in kinds, quiet \in quiets :
       \E v \in {Evaluations[kind, quiet, DwellAge(DwellStored), min_hours]} :
       \E sendable \in {Sendable[kind, quiet, DwellAge(DwellStored), min_hours]} :
       \E refetch_ok \in transports, patch_ok \in transports, write_ok \in writes :
          LET entry == config_file[1]
              shard_index == entry["shards"][1]["shardIndex"]
              updates == IF v.result # None THEN <<v.result[1]>> ELSE <<>>
              r == update_cluster_shards(sendable /\ refetch_ok, patch_ok)
              recorded ==
                  IF v.stamp /\ write_ok
                  THEN update_config_timestamp(config_file, EntryName(entry),
                                               shard_index, now)
                  ELSE config_file
              written == IF r.ok
                         THEN StampAll(recorded, EntryName(entry), updates,
                                       <<write_ok>>, now)
                         ELSE recorded
          IN  /\ config_file' = written
              /\ topology' = IF r.ok THEN Some(ShardAtBase) ELSE topology
              /\ last' = [outcome |-> v.outcome,
                          sent |-> r.sent,
                          stored |-> DwellStored,
                          since_run |-> 0,
                          gaps |-> IF ~last.ran THEN "none"
                                   ELSE IF last.gaps # "dense"
                                           /\ last.since_run >= NEW_SCALE_UP_THRESHOLD_HOURS
                                        THEN "sparse" ELSE "dense",
                          ran |-> TRUE,
                          foreign |-> last.foreign /\ written = config_file,
                          foreign_read |-> last.foreign]
    /\ cluster_entries' = config_file'
    /\ UNCHANGED <<now, tier_specs, min_hours, pc, ci, si, shard_updates, patches,
                   batch>>

DwellRun == Run({"none", TopologyKind}, BOOLEAN, BOOLEAN, BOOLEAN)

NextDwell == Elapse \/ CompanionScalesUp \/ AtlasMovesShard \/ DwellRun

SpecDwell == InitDwell /\ [][NextDwell]_vars

\* the latest run ended ELIGIBLE or made the PATCH request
DwellReverting == last.ran /\ (last.outcome = "ELIGIBLE" \/ last.sent)

\* the age of the timestamp the latest run was handed lies inside the window
InsideWindow ==
    /\ _parse_timestamp(last.stored) # None
    /\ min_hours <= now - last.stored.t
    /\ now - last.stored.t < NEW_SCALE_UP_THRESHOLD_HOURS

\* C28 as stated: a run ends ELIGIBLE only with a timestamp of age in
\* [min_hours, 24), and with min_hours >= 24 or with the runs 24 hours or more
\* apart no run ends ELIGIBLE and none makes the PATCH request.
C28_AsStated ==
    /\ DwellReverting => InsideWindow
    /\ min_hours >= NEW_SCALE_UP_THRESHOLD_HOURS => ~DwellReverting
    /\ last.gaps = "sparse" => ~DwellReverting

\* C28: a run ends ELIGIBLE, and makes the PATCH request, only with a timestamp
\* of age in [min_hours, 24); with min_hours >= 24 none does; with the runs 24
\* hours or more apart none does that was handed a timestamp written by a run
\* of the monitor.
C28_EligibleOnlyInsideWindow ==
    /\ DwellReverting => InsideWindow
    /\ min_hours >= NEW_SCALE_UP_THRESHOLD_HOURS => ~DwellReverting
    /\ last.ran /\ last.gaps # "dense" /\ ~last.foreign_read => ~DwellReverting

\* a later run, 24 hours or more after the one before it and handed a timestamp a
\* monitor run wrote, records the time again; and a run does make the request
C28_Witness ==
    /\ last.gaps = "sparse"
    /\ ~last.foreign_read
    /\ _parse_timestamp(last.stored) # None
    /\ last.outcome = "RECORD_AND_WAIT"
    /\ min_hours < NEW_SCALE_UP_THRESHOLD_HOURS

---------------------------------------------------------------------------
(* The same runs under the conditions that favour a revert: the shard is at *)
(* scaleUpTier and Atlas leaves it there, every request is answered, the    *)
(* file is read and written, the measurements are those of a quiet half     *)
(* hour, min_hours is below 24 and less than 24 hours lie between two runs. *)
(* Time keeps passing and the monitor keeps being run.                      *)

LiveMinHours == {m \in DwellMinHours : m < NEW_SCALE_UP_THRESHOLD_HOURS}

InitLive ==
    /\ InitDwell
    /\ topology = Some(ShardAtScaleUp)
    /\ min_hours \in LiveMinHours

LiveElapse ==
    ElapseBy({h \in DwellGaps : h < NEW_SCALE_UP_THRESHOLD_HOURS},
             NEW_SCALE_UP_THRESHOLD_HOURS)

LiveRun == Run({TopologyKind}, {TRUE}, {TRUE}, {TRUE})

NextLive == LiveElapse \/ LiveRun

SpecLive ==
    InitLive /\ [][NextLive]_vars /\ WF_vars(LiveElapse) /\ WF_vars(LiveRun)

\* C29: a shard that stays at scaleUpTier with safe metrics, under runs less
\* than 24 hours apart and min_hours below 24, eventually ends a run ELIGIBLE
\* with the PATCH that reverts it submitted.
C29_EventuallyReverted == <>(last.outcome = "ELIGIBLE" /\ last.sent)

---------------------------------------------------------------------------
(* The timestamps of a batch against the tier changes its payload carried   *)

\* monitor_cluster came back from a batch whose PATCH request was made
BatchSent ==
    /\ pc = "main"
    /\ batch # None
    /\ batch[1].sent

\* the shard indexes of the batch's entry whose timestamp the batch wrote
StampedByBatch ==
    {batch[1].updates[i].shard_index :
        i \in {k \in 1..Len(batch[1].updates) :
                  StoredFor(config_file, batch[1].ci, batch[1].updates[k].shard_index)
                      # StoredFor(batch[1].before, batch[1].ci,
                                  batch[1].updates[k].shard_index)}}

\* C30: a batch makes its PATCH request only with the tier change of at least
\* one shard applied in the payload, and after a successful PATCH it writes the
\* timestamp only of shards whose tier change the payload carried.
C30_StampOnlyAppliedChanges ==
    BatchSent
    => /\ batch[1].applied # {}
       /\ StampedByBatch \subseteq batch[1].applied

---------------------------------------------------------------------------
(* The tier changes of a batch against the tiers of the document it fetched *)

\* C31: every shard whose tier change the submitted payload carries is at
\* scaleUpTier in the document update_cluster_shards fetched for the payload.
C31_RevertsOnlyScaleUpTier ==
    BatchSent => batch[1].applied \subseteq batch[1].at_scale_up

---------------------------------------------------------------------------
(* The process of one shard index against the processes of the others       *)

\* C32: for one process list and cluster, the process found for a shard index
\* is found for no other shard index of the cluster.
C32_ShardsResolveApart ==
    pc = "located" /\ last.primary_process # None
      => \A other \in (0..(Len(topology[1]["replicationSpecs"]) - 1))
                          \ {last.shard_index} :
            get_cluster_process_for_shard(last.cluster_name, topology[1], other,
                                          last.processes)
                # last.primary_process

=============================================================================
